--------------------------- MODULE RowLocks_proofs --------------------------
(***************************************************************************)
(* Proofs about RowLocks, for any number of workers and bookings, and any  *)
(* overlaps between their slots.                                           *)
(***************************************************************************)
EXTENDS RowLocks, TLAPS

-----------------------------------------------------------------------------
(* The plans.                                                              *)

PaymentOps == {"finalize_order", "compensate", "captured", "failed"}
RefundEvents == {"refund_processed", "refund_failed"}
RefundAnswers == {"finalize_refund", "reconcile"}
SessionOps == {"start_session", "complete_session"}

LEMMA RowsAreThere ==
    /\ Point \in Rows /\ Station \in Rows
    /\ \A b \in Bookings : /\ Row("bookings", b) \in Rows
                           /\ Row("payments", b) \in Rows
                           /\ Row("refunds", b) \in Rows
BY DEF Rows, Row, Point, Station

LEMMA RowsDiffer ==
    /\ \A b, c : Row("bookings", b) # Row("payments", c)
    /\ \A b, c : Row("bookings", b) # Row("refunds", c)
    /\ \A b, c : Row("payments", b) # Row("refunds", c)
    /\ \A b : Row("bookings", b) # Point /\ Row("bookings", b) # Station
    /\ \A b : Row("payments", b) # Point /\ Row("payments", b) # Station
    /\ \A b : Row("refunds", b) # Point /\ Row("refunds", b) # Station
    /\ Point # Station
    /\ \A t, b, c : Row(t, b) = Row(t, c) => b = c
BY DEF Row, Point, Station

\* The rows each operation locks, in the order of the code.
LEMMA Plans ==
    ASSUME NEW b
    PROVE  /\ Plan("hold", b) = <<Point, Station>>
           /\ Plan("edit_point", b) = <<Station, Point>>
           /\ Plan("begin_payment", b) = <<Row("bookings", b)>>
           /\ \A op \in PaymentOps : Plan(op, b) = <<Row("payments", b), Row("bookings", b)>>
           /\ Plan("cancel", b) = <<Row("bookings", b), Row("payments", b)>>
           /\ \A op \in RefundEvents : Plan(op, b) = <<Row("payments", b), Row("refunds", b)>>
           /\ \A op \in RefundAnswers : Plan(op, b) = <<Row("refunds", b), Row("payments", b)>>
           /\ \A op \in SessionOps : Plan(op, b) = <<Row("bookings", b), Point>>
           /\ Plan("read_bookings", b) = << >>
           /\ Plan("expire_holds", b) = << >>
BY DEF Plan, PaymentOps, RefundEvents, RefundAnswers, SessionOps, HoldPlan, EditPlan, PaymentPlan,
       CancelPlan, RefundEventPlan, RefundAnswerPlan, SessionPlan

LEMMA Operations ==
    ASSUME NEW op \in Operation
    PROVE  \/ op \in {"hold", "edit_point", "begin_payment", "cancel", "read_bookings", "expire_holds"}
           \/ op \in PaymentOps \union RefundEvents \union RefundAnswers \union SessionOps
BY DEF Operation, ReadsClock, PaymentOps, RefundEvents, RefundAnswers, SessionOps

LEMMA PlanLengths ==
    ASSUME NEW op \in Operation, NEW b
    PROVE  /\ Len(Plan(op, b)) = IF op \in {"read_bookings", "expire_holds"} THEN 0
                                 ELSE IF op = "begin_payment" THEN 1 ELSE 2
<1>1. CASE op \in {"hold", "edit_point", "begin_payment", "cancel", "read_bookings", "expire_holds"}
  BY <1>1, Plans
<1>2. CASE op \in PaymentOps \union RefundEvents \union RefundAnswers \union SessionOps
  BY <1>2, Plans DEF PaymentOps, RefundEvents, RefundAnswers, SessionOps
<1>. QED
  BY <1>1, <1>2, Operations

LEMMA PlannedRows ==
    ASSUME NEW op \in Operation, NEW b, b \in Bookings \/ op \in General,
           NEW i \in 1..Len(Plan(op, b))
    PROVE  Plan(op, b)[i] \in Rows
<1>1. i \in {1, 2} /\ (op = "begin_payment" => i = 1) /\ op \notin {"read_bookings", "expire_holds"}
  <2> DEFINE n == Len(Plan(op, b))
  <2>1. n = IF op \in {"read_bookings", "expire_holds"} THEN 0
            ELSE IF op = "begin_payment" THEN 1 ELSE 2
    BY PlanLengths
  <2>2. i \in 1..n
    OBVIOUS
  <2> HIDE DEF n
  <2>3. n \in Nat /\ i \in Nat /\ 1 <= i /\ i <= n
    BY <2>1, <2>2
  <2>. QED
    BY <2>1, <2>3
<1>2. CASE op \in {"hold", "edit_point"}
  BY <1>1, <1>2, Plans, RowsAreThere
<1>3. CASE op = "begin_payment"
  BY <1>1, <1>3, Plans, RowsAreThere DEF General
<1>4. CASE op = "cancel"
  BY <1>1, <1>4, Plans, RowsAreThere DEF General
<1>5. CASE op \in PaymentOps
  BY <1>1, <1>5, Plans, RowsAreThere DEF General, PaymentOps
<1>6. CASE op \in RefundEvents
  BY <1>1, <1>6, Plans, RowsAreThere DEF General, RefundEvents
<1>7. CASE op \in RefundAnswers
  BY <1>1, <1>7, Plans, RowsAreThere DEF General, RefundAnswers
<1>8. CASE op \in SessionOps
  BY <1>1, <1>8, Plans, RowsAreThere DEF General, SessionOps
<1>. QED
  BY <1>1, <1>2, <1>3, <1>4, <1>5, <1>6, <1>7, <1>8, Operations

-----------------------------------------------------------------------------
(* The inductive invariant: what is known of a worker in the middle of its  *)
(* transaction, and what the three rows of a booking say together.          *)

\* It is about one booking, unless what it does is about none.
SubjectInv(v) ==
    /\ doing[v] = "nothing" => /\ subject[v] = Nobody
                               /\ stage[v] = "locking" /\ taken[v] = 0 /\ visits[v] = {}
    /\ doing[v] \in General => subject[v] = Nobody
    /\ doing[v] \in Operation \ General => subject[v] \in Bookings

\* Bookings are updated only by those who expire them, when all locks are taken.
StageInv(v) ==
    /\ doing[v] # "nothing" => taken[v] <= Len(PlanOf(v))
    /\ stage[v] # "locking" => /\ doing[v] \in {"hold", "read_bookings", "expire_holds"}
                               /\ taken[v] = Len(PlanOf(v))
    /\ stage[v] = "checked" => doing[v] = "hold"
    /\ visits[v] # {} => stage[v] = "updating" /\ doing[v] # "expire_holds"

\* It has the rows of its plan up to where it is, and besides these only
\* bookings that it expires.
LockInv(v) ==
    /\ \A i \in 1..taken[v] : lockedBy[PlanOf(v)[i]] = v
    /\ \A x \in Rows :
          lockedBy[x] = v => \/ \E i \in 1..taken[v] : x = PlanOf(v)[i]
                             \/ stage[v] # "locking" /\ \E b \in Bookings : x = Row("bookings", b)

\* What the request was taken up for is still so, locked or not.
KnownInv(v) ==
    LET b == subject[v] IN
    /\ doing[v] = "hold" => booking[b] = "absent"
    /\ doing[v] \in {"finalize_order", "compensate"} => payment[b] = "initiated"
    /\ doing[v] = "captured" => payment[b] \in {"order_created", "failed"}
    /\ doing[v] = "failed" => payment[b] \notin {"none", "initiated", "no_order"}
    /\ doing[v] \in RefundEvents \union RefundAnswers => refund[b] # "none"

\* What it found under its first lock is still so when it has both.
FoundInv(v) ==
    LET b == subject[v] IN
    taken[v] = 2 =>
      /\ doing[v] = "cancel" => booking[b] = "confirmed" /\ payment[b] = "captured"
      /\ doing[v] = "failed" => payment[b] \notin {"captured", "refunded"}
      /\ doing[v] = "reconcile" => refund[b] = "pending"
      /\ doing[v] = "start_session" => booking[b] = "confirmed"
      /\ doing[v] = "complete_session" => booking[b] = "active"

\* The overlap check of a hold stays true until the hold commits.
OverlapInv(v) ==
    stage[v] = "checked" =>
      \A c \in Bookings \ Expires(v) : <<subject[v], c>> \in Conflicts => booking[c] \notin Blocking

WorkerInv(v) ==
    SubjectInv(v) /\ StageInv(v) /\ LockInv(v) /\ KnownInv(v) /\ FoundInv(v) /\ OverlapInv(v)

\* One hold, one answer of Razorpay about the order, one capture at a time.
OnceInv(v, w) ==
    subject[v] = subject[w] =>
      /\ doing[v] = "hold" => doing[w] # "hold"
      /\ doing[v] \in {"finalize_order", "compensate"} =>
            doing[w] \notin {"finalize_order", "compensate"}
      /\ doing[v] = "captured" => doing[w] # "captured"

\* The rows of a booking agree.
RowsInv(b) ==
    /\ booking[b] = "absent" => payment[b] = "none"
    /\ booking[b] = "payment_pending" => payment[b] \in Open
    /\ booking[b] \in {"held", "expired"} => payment[b] \notin Open
    /\ refund[b] # "none" => booking[b] = "cancelled" /\ payment[b] \in {"captured", "refunded"}
    /\ payment[b] = "refunded" <=> refund[b] = "processed"

LocksInv ==
    /\ TypeOK
    /\ \A v \in Workers : WorkerInv(v)
    /\ \A v \in Workers, w \in Workers : v # w => OnceInv(v, w)
    /\ \A b \in Bookings : RowsInv(b)

-----------------------------------------------------------------------------
(* What a transaction may do to the rows of a booking.                      *)

Status == Blocking \union {"absent", "completed", "cancelled", "expired"}
PaymentStatus == Open \union {"none", "no_order", "failed", "captured", "refunded"}
RefundStatus == {"none", "requested", "pending", "failed", "processed"}

DataOK ==
    /\ booking \in [Bookings -> Status]
    /\ payment \in [Bookings -> PaymentStatus]
    /\ refund \in [Bookings -> RefundStatus]

Owns(w, table, b) == lockedBy[Row(table, b)] = w

SamePayment(b) == payment'[b] = payment[b]
SameRefund(b) == refund'[b] = refund[b]
Same(b) == booking'[b] = booking[b] /\ SamePayment(b) /\ SameRefund(b)

Grants(w, b) ==
    /\ doing[w] = "hold" /\ stage[w] = "checked" /\ subject[w] = b
    /\ booking[b] = "absent" /\ booking'[b] = "held"
    /\ SamePayment(b) /\ SameRefund(b)

Lapses(w, b) ==
    /\ Owns(w, "bookings", b)
    /\ booking[b] = "held" /\ booking'[b] = "expired"
    /\ SamePayment(b) /\ SameRefund(b)

Pays(w, b) ==
    /\ Owns(w, "bookings", b)
    /\ booking[b] = "held" /\ booking'[b] = "payment_pending"
    /\ payment[b] = "none" /\ payment'[b] = "initiated"
    /\ SameRefund(b)

Answers(w, b) ==
    /\ doing[w] \in PaymentOps /\ subject[w] = b
    /\ Owns(w, "payments", b) /\ Owns(w, "bookings", b)
    /\ doing[w] \in {"finalize_order", "compensate"} => payment[b] = "initiated"
    /\ doing[w] \in {"captured", "failed"} => payment[b] \in {"order_created", "failed"}
    /\ doing[w] \in {"captured", "failed"} => payment'[b] = doing[w]
    /\ \/ booking[b] # "payment_pending" /\ booking'[b] = booking[b]
          /\ payment'[b] \in {"failed", "no_order", "captured"}
       \/ booking[b] = "payment_pending" /\ booking'[b] = "payment_pending"
          /\ payment'[b] = "order_created"
       \/ booking[b] = "payment_pending" /\ booking'[b] \in {"held", "expired"}
          /\ payment'[b] \in {"failed", "no_order"}
       \/ booking[b] = "payment_pending" /\ booking'[b] = "confirmed"
          /\ payment'[b] = "captured"
    /\ SameRefund(b)

Cancels(w, b) ==
    /\ Owns(w, "bookings", b)
    /\ booking'[b] = "cancelled"
    /\ \/ booking[b] \in {"held", "payment_pending"} /\ SameRefund(b)
       \/ booking[b] = "confirmed" /\ payment[b] = "captured" /\ refund'[b] = "requested"
    /\ SamePayment(b)

Refunds(w, b) ==
    /\ Owns(w, "payments", b) /\ Owns(w, "refunds", b)
    /\ refund[b] # "none"
    /\ \/ refund'[b] = "processed" /\ payment'[b] = "refunded"
       \/ /\ refund[b] # "processed" /\ SamePayment(b)
          /\ \/ refund'[b] = "failed"
             \/ refund[b] = "requested" /\ refund'[b] = "pending"
    /\ booking'[b] = booking[b]

Charges(w, b) ==
    /\ Owns(w, "bookings", b)
    /\ \/ booking[b] = "confirmed" /\ booking'[b] = "active"
       \/ booking[b] = "active" /\ booking'[b] = "completed"
    /\ SamePayment(b) /\ SameRefund(b)

\* What one commit of w does to the booking it is about.
Moves(w, b) ==
    \/ Pays(w, b) \/ Answers(w, b) \/ Cancels(w, b) \/ Refunds(w, b) \/ Charges(w, b)

May(w, b) == Same(b) \/ Grants(w, b) \/ Lapses(w, b) \/ Moves(w, b)

LEMMA MovesKeepRows ==
    ASSUME DataOK, NEW w, NEW b \in Bookings, RowsInv(b), May(w, b)
    PROVE  /\ RowsInv(b)'
           /\ booking'[b] \in Status /\ payment'[b] \in PaymentStatus /\ refund'[b] \in RefundStatus
<1> DEFINE k == booking[b]
           p == payment[b]
           r == refund[b]
           kk == booking'[b]
           pp == payment'[b]
           rr == refund'[b]
           Agree(x, y, z) == /\ x = "absent" => y = "none"
                             /\ x = "payment_pending" => y \in Open
                             /\ x \in {"held", "expired"} => y \notin Open
                             /\ z # "none" => x = "cancelled" /\ y \in {"captured", "refunded"}
                             /\ y = "refunded" <=> z = "processed"
           Typed(x, y, z) == x \in Status /\ y \in PaymentStatus /\ z \in RefundStatus
<1>1. Typed(k, p, r) /\ Agree(k, p, r)
  BY DEF RowsInv, DataOK
<1> SUFFICES Typed(kk, pp, rr) /\ Agree(kk, pp, rr)
  BY DEF RowsInv
<1>2. CASE Same(b)
  BY <1>1, <1>2 DEF Same, SamePayment, SameRefund
<1>3. CASE Grants(w, b)
  <2>1. k = "absent" /\ kk = "held" /\ pp = p /\ rr = r
    BY <1>3 DEF Grants, SamePayment, SameRefund
  <2> HIDE DEF k, kk, p, pp, r, rr
  <2>. QED
    BY <1>1, <2>1 DEF Status, Blocking, Open
<1>4. CASE Lapses(w, b)
  <2>1. k = "held" /\ kk = "expired" /\ pp = p /\ rr = r
    BY <1>4 DEF Lapses, SamePayment, SameRefund
  <2> HIDE DEF k, kk, p, pp, r, rr
  <2>. QED
    BY <1>1, <2>1 DEF Status, Blocking, Open
<1>5. CASE Pays(w, b)
  <2>1. k = "held" /\ kk = "payment_pending" /\ p = "none" /\ pp = "initiated" /\ rr = r
    BY <1>5 DEF Pays, SamePayment, SameRefund
  <2> HIDE DEF k, kk, p, pp, r, rr
  <2>. QED
    BY <1>1, <2>1 DEF Status, Blocking, Open, PaymentStatus
<1>6. CASE Answers(w, b)
  <2>1. p \in {"initiated", "order_created", "failed"} /\ rr = r
    BY <1>6 DEF Answers, SameRefund, PaymentOps
  <2>2. \/ k # "payment_pending" /\ kk = k /\ pp \in {"failed", "no_order", "captured"}
        \/ k = "payment_pending" /\ kk = "payment_pending" /\ pp = "order_created"
        \/ k = "payment_pending" /\ kk \in {"held", "expired"} /\ pp \in {"failed", "no_order"}
        \/ k = "payment_pending" /\ kk = "confirmed" /\ pp = "captured"
    BY <1>6 DEF Answers
  <2> HIDE DEF k, kk, p, pp, r, rr
  <2>. QED
    BY <1>1, <2>1, <2>2 DEF Status, Blocking, Open, PaymentStatus
<1>7. CASE Cancels(w, b)
  <2>1. /\ kk = "cancelled" /\ pp = p
        /\ \/ k \in {"held", "payment_pending"} /\ rr = r
           \/ k = "confirmed" /\ p = "captured" /\ rr = "requested"
    BY <1>7 DEF Cancels, SamePayment, SameRefund
  <2> HIDE DEF k, kk, p, pp, r, rr
  <2>. QED
    BY <1>1, <2>1 DEF Status, Blocking, Open, RefundStatus
<1>8. CASE Refunds(w, b)
  <2>1. /\ kk = k /\ r # "none"
        /\ \/ rr = "processed" /\ pp = "refunded"
           \/ r # "processed" /\ rr \in {"pending", "failed"} /\ pp = p
    BY <1>8 DEF Refunds, SamePayment
  <2> HIDE DEF k, kk, p, pp, r, rr
  <2>. QED
    BY <1>1, <2>1 DEF Status, Blocking, Open, RefundStatus, PaymentStatus
<1>9. CASE Charges(w, b)
  <2>1. /\ \/ k = "confirmed" /\ kk = "active"
           \/ k = "active" /\ kk = "completed"
        /\ pp = p /\ rr = r
    BY <1>9 DEF Charges, SamePayment, SameRefund
  <2> HIDE DEF k, kk, p, pp, r, rr
  <2>. QED
    BY <1>1, <2>1 DEF Status, Blocking, Open
<1>. QED
  BY <1>2, <1>3, <1>4, <1>5, <1>6, <1>7, <1>8, <1>9 DEF May, Moves

\* What a commit writes is one of these.
LEMMA HasItsRows ==
    ASSUME TypeOK, NEW w \in Workers, WorkerInv(w), doing[w] \in Operation
    PROVE  /\ taken[w] \in 0..2 /\ taken[w] <= Len(PlanOf(w))
           /\ taken[w] >= 1 => lockedBy[PlanOf(w)[1]] = w
           /\ taken[w] >= 2 => lockedBy[PlanOf(w)[2]] = w
<1>1. taken[w] \in 0..2
  BY DEF TypeOK
<1>2. doing[w] # "nothing"
  BY DEF Operation, ReadsClock
<1>. QED
  BY <1>1, <1>2 DEF WorkerInv, StageInv, LockInv

LEMMA HasItsTwoRows ==
    ASSUME TypeOK, NEW w \in Workers, WorkerInv(w), doing[w] \in Operation, taken[w] = 2,
           NEW b, b = subject[w]
    PROVE  /\ doing[w] \in PaymentOps => Owns(w, "payments", b) /\ Owns(w, "bookings", b)
           /\ doing[w] = "cancel" => Owns(w, "bookings", b) /\ Owns(w, "payments", b)
           /\ doing[w] \in RefundEvents \union RefundAnswers =>
                 Owns(w, "payments", b) /\ Owns(w, "refunds", b)
           /\ doing[w] \in SessionOps => Owns(w, "bookings", b)
           /\ doing[w] = "hold" => lockedBy[Point] = w
<1>1. lockedBy[PlanOf(w)[1]] = w /\ lockedBy[PlanOf(w)[2]] = w
  BY HasItsRows
<1>2. CASE doing[w] \in PaymentOps
  <2>1. PlanOf(w) = <<Row("payments", b), Row("bookings", b)>>
    BY <1>2, Plans DEF PlanOf
  <2>. QED
    BY <1>1, <1>2, <2>1 DEF Owns, PaymentOps, RefundEvents, RefundAnswers, SessionOps
<1>3. CASE doing[w] = "cancel"
  <2>1. PlanOf(w) = <<Row("bookings", b), Row("payments", b)>>
    BY <1>3, Plans DEF PlanOf
  <2>. QED
    BY <1>1, <1>3, <2>1 DEF Owns, PaymentOps, RefundEvents, RefundAnswers, SessionOps
<1>4. CASE doing[w] \in RefundEvents
  <2>1. PlanOf(w) = <<Row("payments", b), Row("refunds", b)>>
    BY <1>4, Plans DEF PlanOf
  <2>. QED
    BY <1>1, <1>4, <2>1 DEF Owns, PaymentOps, RefundEvents, RefundAnswers, SessionOps
<1>5. CASE doing[w] \in RefundAnswers
  <2>1. PlanOf(w) = <<Row("refunds", b), Row("payments", b)>>
    BY <1>5, Plans DEF PlanOf
  <2>. QED
    BY <1>1, <1>5, <2>1 DEF Owns, PaymentOps, RefundEvents, RefundAnswers, SessionOps
<1>6. CASE doing[w] \in SessionOps
  <2>1. PlanOf(w) = <<Row("bookings", b), Point>>
    BY <1>6, Plans DEF PlanOf
  <2>. QED
    BY <1>1, <1>6, <2>1 DEF Owns, PaymentOps, RefundEvents, RefundAnswers, SessionOps
<1>7. CASE doing[w] = "hold"
  <2>1. PlanOf(w) = <<Point, Station>>
    BY <1>7, Plans DEF PlanOf
  <2>. QED
    BY <1>1, <1>7, <2>1 DEF Owns, PaymentOps, RefundEvents, RefundAnswers, SessionOps
<1>. QED
  BY <1>2, <1>3, <1>4, <1>5, <1>6, <1>7

\* A statement wrote, at most, what it wrote for the booking b.
WritesOnly(b) ==
    /\ booking' = booking \/ \E x \in Status : booking' = [booking EXCEPT ![b] = x]
    /\ payment' = payment \/ \E x \in PaymentStatus : payment' = [payment EXCEPT ![b] = x]
    /\ refund' = refund \/ \E x \in RefundStatus : refund' = [refund EXCEPT ![b] = x]

LEMMA WritesOnlyThere ==
    ASSUME DataOK, NEW b \in Bookings, WritesOnly(b)
    PROVE  DataOK' /\ \A c \in Bookings \ {b} : Same(c)
<1>1. /\ booking' \in [Bookings -> Status]
      /\ \A c \in Bookings \ {b} : booking'[c] = booking[c]
  BY DEF DataOK, WritesOnly
<1>2. /\ payment' \in [Bookings -> PaymentStatus]
      /\ \A c \in Bookings \ {b} : payment'[c] = payment[c]
  BY DEF DataOK, WritesOnly
<1>3. /\ refund' \in [Bookings -> RefundStatus]
      /\ \A c \in Bookings \ {b} : refund'[c] = refund[c]
  BY DEF DataOK, WritesOnly
<1>. QED
  BY <1>1, <1>2, <1>3 DEF DataOK, Same, SamePayment, SameRefund

LEMMA HasAllLocks ==
    ASSUME TypeOK, NEW w \in Workers, WorkerInv(w), HasLocks(w)
    PROVE  /\ doing[w] \in Operation /\ stage[w] = "locking"
           /\ doing[w] \in {"read_bookings", "expire_holds"} => taken[w] = 0
           /\ doing[w] = "begin_payment" => taken[w] = 1
           /\ doing[w] \notin {"read_bookings", "expire_holds", "begin_payment"} => taken[w] = 2
<1>1. doing[w] \in Operation /\ stage[w] = "locking" /\ taken[w] = Len(PlanOf(w))
  BY DEF HasLocks, Locking, TypeOK
<1>. QED
  BY <1>1, PlanLengths DEF PlanOf

LEMMA SubjectIsBooking ==
    ASSUME TypeOK, NEW w \in Workers, SubjectInv(w), subject[w] # Nobody
    PROVE  subject[w] \in Bookings /\ doing[w] \in Operation \ General
BY DEF TypeOK, SubjectInv

LEMMA TypesOfData ==
    ASSUME TypeOK
    PROVE  DataOK
BY DEF TypeOK, DataOK, Status, PaymentStatus, RefundStatus

LEMMA WritesMove ==
    ASSUME TypeOK, NEW w \in Workers, WorkerInv(w), \A c \in Bookings : RowsInv(c),
           NEW b \in Bookings, b = subject[w], Writes(w, b)
    PROVE  Moves(w, b) /\ WritesOnly(b)
<1>1. DataOK
  BY TypesOfData
<1>2. CASE BeginPayment(w, b)
  <2>1. doing[w] = "begin_payment" /\ taken[w] = 1
    BY <1>2, HasAllLocks DEF BeginPayment, Has
  <2>2. PlanOf(w) = <<Row("bookings", b)>>
    BY <2>1, Plans DEF PlanOf
  <2>3. Owns(w, "bookings", b)
    BY <2>1, <2>2, HasItsRows DEF Owns, Operation, ReadsClock
  <2>4. Pays(w, b)
    BY <1>1, <1>2, <2>3 DEF BeginPayment, Pays, Set, SameRefund, DataOK
  <2>5. WritesOnly(b)
    BY <1>2 DEF BeginPayment, WritesOnly, Set, Status, PaymentStatus, Blocking, Open
  <2>. QED
    BY <2>4, <2>5 DEF Moves
<1>3. CASE FinalizeOrder(w, b)
  <2>1. doing[w] = "finalize_order" /\ taken[w] = 2
    BY <1>3, HasAllLocks DEF FinalizeOrder, Has
  <2>2. Owns(w, "payments", b) /\ Owns(w, "bookings", b)
    BY <2>1, HasItsTwoRows DEF Operation, PaymentOps
  <2>3. payment[b] = "initiated"
    BY <2>1 DEF WorkerInv, KnownInv
  <2>4. Answers(w, b)
    BY <1>1, <1>3, <2>1, <2>2, <2>3 DEF FinalizeOrder, Answers, Set, SameRefund, DataOK, PaymentOps
  <2>5. WritesOnly(b)
    BY <1>3 DEF FinalizeOrder, WritesOnly, Set, PaymentStatus, Open
  <2>. QED
    BY <2>4, <2>5 DEF Moves
<1>4. CASE CompensateOrderFailure(w, b)
  <2>1. doing[w] = "compensate" /\ taken[w] = 2
    BY <1>4, HasAllLocks DEF CompensateOrderFailure, Has
  <2>2. Owns(w, "payments", b) /\ Owns(w, "bookings", b)
    BY <2>1, HasItsTwoRows DEF Operation, ReadsClock, PaymentOps
  <2>3. payment[b] = "initiated"
    BY <2>1 DEF WorkerInv, KnownInv
  <2>4. payment' = [payment EXCEPT ![b] = "no_order"] /\ refund' = refund
    BY <1>4 DEF CompensateOrderFailure, Set
  <2>5. IF booking[b] = "payment_pending"
        THEN \E x \in {"held", "expired"} : booking' = [booking EXCEPT ![b] = x]
        ELSE booking' = booking
    BY <1>4 DEF CompensateOrderFailure, Reopen, Set
  <2>6. Answers(w, b)
    BY <1>1, <2>1, <2>2, <2>3, <2>4, <2>5 DEF Answers, SameRefund, DataOK, PaymentOps
  <2>7. WritesOnly(b)
    BY <2>4, <2>5 DEF WritesOnly, Status, PaymentStatus, Blocking
  <2>. QED
    BY <2>6, <2>7 DEF Moves
<1>5. CASE ApplyFailed(w, b)
  <2>1. doing[w] = "failed" /\ taken[w] = 2
    BY <1>5, HasAllLocks DEF ApplyFailed, Has
  <2>2. Owns(w, "payments", b) /\ Owns(w, "bookings", b)
    BY <2>1, HasItsTwoRows DEF Operation, PaymentOps
  <2>3. payment[b] \in {"order_created", "failed"}
    BY <1>1, <2>1 DEF WorkerInv, KnownInv, FoundInv, DataOK, PaymentStatus, Open
  <2>4. payment' = [payment EXCEPT ![b] = "failed"] /\ refund' = refund
    BY <1>5 DEF ApplyFailed, Set
  <2>5. IF booking[b] = "payment_pending"
        THEN \E x \in {"held", "expired"} : booking' = [booking EXCEPT ![b] = x]
        ELSE booking' = booking
    BY <1>5 DEF ApplyFailed, Reopen, Set
  <2>6. Answers(w, b)
    BY <1>1, <2>1, <2>2, <2>3, <2>4, <2>5 DEF Answers, SameRefund, DataOK, PaymentOps
  <2>7. WritesOnly(b)
    BY <2>4, <2>5 DEF WritesOnly, Status, PaymentStatus, Blocking
  <2>. QED
    BY <2>6, <2>7 DEF Moves
<1>6. CASE ApplyCaptured(w, b)
  <2>1. doing[w] = "captured" /\ taken[w] = 2
    BY <1>6, HasAllLocks DEF ApplyCaptured, Has
  <2>2. Owns(w, "payments", b) /\ Owns(w, "bookings", b)
    BY <2>1, HasItsTwoRows DEF Operation, PaymentOps
  <2>3. payment[b] \in {"order_created", "failed"}
    BY <2>1 DEF WorkerInv, KnownInv
  <2>4. payment' = [payment EXCEPT ![b] = "captured"] /\ refund' = refund
    BY <1>6 DEF ApplyCaptured, Set
  <2>5. IF booking[b] = "payment_pending" THEN booking' = [booking EXCEPT ![b] = "confirmed"]
                                          ELSE booking' = booking
    BY <1>6 DEF ApplyCaptured, Set
  <2>6. Answers(w, b)
    BY <1>1, <2>1, <2>2, <2>3, <2>4, <2>5 DEF Answers, SameRefund, DataOK, PaymentOps
  <2>7. WritesOnly(b)
    BY <2>4, <2>5 DEF WritesOnly, Status, PaymentStatus, Blocking
  <2>. QED
    BY <2>6, <2>7 DEF Moves
<1>7. CASE CancelUnpaid(w, b)
  <2>1. doing[w] = "cancel" /\ taken[w] = 1
    BY <1>7 DEF CancelUnpaid
  <2>2. PlanOf(w) = <<Row("bookings", b), Row("payments", b)>>
    BY <2>1, Plans DEF PlanOf
  <2>3. Owns(w, "bookings", b)
    BY <2>1, <2>2, HasItsRows DEF Owns, Operation, ReadsClock
  <2>4. Cancels(w, b)
    BY <1>1, <1>7, <2>3 DEF CancelUnpaid, Cancels, Set, SamePayment, SameRefund, DataOK
  <2>5. WritesOnly(b)
    BY <1>7 DEF CancelUnpaid, WritesOnly, Set, Status
  <2>. QED
    BY <2>4, <2>5 DEF Moves
<1>8. CASE CancelConfirmed(w, b)
  <2>1. doing[w] = "cancel" /\ taken[w] = 2
    BY <1>8, HasAllLocks DEF CancelConfirmed, Has
  <2>2. Owns(w, "bookings", b)
    BY <2>1, HasItsTwoRows DEF Operation, ReadsClock
  <2>3. booking[b] = "confirmed" /\ payment[b] = "captured"
    BY <2>1 DEF WorkerInv, FoundInv
  <2>4. Cancels(w, b)
    BY <1>1, <1>8, <2>2, <2>3 DEF CancelConfirmed, Cancels, Set, SamePayment, DataOK
  <2>5. WritesOnly(b)
    BY <1>8 DEF CancelConfirmed, WritesOnly, Set, Status, RefundStatus
  <2>. QED
    BY <2>4, <2>5 DEF Moves
<1>9. ASSUME doing[w] \in RefundEvents \union RefundAnswers, HasLocks(w), refund[b] # "none",
             NEW outcome \in {"pending", "failed", "processed"}, SettleRefund(b, outcome),
             outcome # "processed" => refund[b] # "processed",
             outcome = "pending" => refund[b] = "requested"
      PROVE  Moves(w, b) /\ WritesOnly(b)
  <2>1. doing[w] \in Operation /\ taken[w] = 2
    BY <1>9, HasAllLocks DEF RefundEvents, RefundAnswers
  <2>2. Owns(w, "payments", b) /\ Owns(w, "refunds", b)
    BY <1>9, <2>1, HasItsTwoRows
  <2>3. refund' = [refund EXCEPT ![b] = outcome] /\ booking' = booking
    BY <1>9 DEF SettleRefund, Set
  <2>4. IF outcome = "processed" THEN payment' = [payment EXCEPT ![b] = "refunded"]
                                 ELSE payment' = payment
    BY <1>9 DEF SettleRefund, Set
  <2>5. Refunds(w, b)
    <3>1. CASE outcome = "processed"
      BY <1>1, <1>9, <2>2, <2>3, <2>4, <3>1 DEF Refunds, DataOK
    <3>2. CASE outcome # "processed"
      BY <1>1, <1>9, <2>2, <2>3, <2>4, <3>2 DEF Refunds, SamePayment, DataOK
    <3>. QED
      BY <3>1, <3>2
  <2>6. WritesOnly(b)
    BY <1>9, <2>3, <2>4 DEF WritesOnly, RefundStatus, PaymentStatus
  <2>. QED
    BY <2>5, <2>6 DEF Moves
<1>10. doing[w] \in RefundEvents \union RefundAnswers => refund[b] # "none"
  BY DEF WorkerInv, KnownInv
<1>11. CASE ApplyRefundEvent(w, b)
  BY <1>9, <1>10, <1>11 DEF ApplyRefundEvent, Has, RefundEvents
<1>12. CASE FinalizeRefund(w, b)
  BY <1>9, <1>10, <1>12 DEF FinalizeRefund, IsRequested, Has, RefundAnswers
<1>13. CASE ApplyFetchedRefund(w, b)
  BY <1>9, <1>10, <1>13 DEF ApplyFetchedRefund, Has, RefundAnswers
<1>14. CASE StartSession(w, b)
  <2>1. doing[w] = "start_session" /\ taken[w] = 2
    BY <1>14, HasAllLocks DEF StartSession, Has
  <2>2. Owns(w, "bookings", b)
    BY <2>1, HasItsTwoRows DEF Operation, SessionOps
  <2>3. booking[b] = "confirmed"
    BY <2>1 DEF WorkerInv, FoundInv
  <2>4. Charges(w, b)
    BY <1>1, <1>14, <2>2, <2>3 DEF StartSession, Charges, Set, SamePayment, SameRefund, DataOK
  <2>5. WritesOnly(b)
    BY <1>14 DEF StartSession, WritesOnly, Set, Status, Blocking
  <2>. QED
    BY <2>4, <2>5 DEF Moves
<1>15. CASE CompleteSession(w, b)
  <2>1. doing[w] = "complete_session" /\ taken[w] = 2
    BY <1>15, HasAllLocks DEF CompleteSession, Has
  <2>2. Owns(w, "bookings", b)
    BY <2>1, HasItsTwoRows DEF Operation, SessionOps
  <2>3. booking[b] = "active"
    BY <2>1 DEF WorkerInv, FoundInv
  <2>4. Charges(w, b)
    BY <1>1, <1>15, <2>2, <2>3 DEF CompleteSession, Charges, Set, SamePayment, SameRefund, DataOK
  <2>5. WritesOnly(b)
    BY <1>15 DEF CompleteSession, WritesOnly, Set, Status
  <2>. QED
    BY <2>4, <2>5 DEF Moves
<1>. QED
  BY <1>2, <1>3, <1>4, <1>5, <1>6, <1>7, <1>8, <1>11, <1>12, <1>13, <1>14, <1>15 DEF Writes

-----------------------------------------------------------------------------
(* One step of a worker, for that worker.                                   *)

\* These end a transaction ...
Ends(w) == CommitExpiry(w) \/ CommitHold(w) \/ CommitWrites(w) \/ GiveUp(w)

\* ... and these bring it forward.
Advances(w) ==
    \/ \E op \in Operation, b \in Bookings \union {Nobody} : Begin(w, op, b)
    \/ LockNext(w) \/ StartUpdate(w) \/ CheckOverlap(w)
    \/ \E b \in Bookings : VisitRow(w, b)
    \/ \E S \in SUBSET Bookings : SelectBatch(w, S)

LEMMA StepsAreTwofold ==
    ASSUME NEW w, Step(w)
    PROVE  Ends(w) \/ Advances(w)
BY DEF Step, Ends, Advances

LEMMA EndsWrite ==
    ASSUME LocksInv, NEW w \in Workers, Ends(w)
    PROVE  Release(w) /\ ranOut' = ranOut /\ DataOK' /\ \A c \in Bookings : May(w, c)
<1>1. TypeOK /\ DataOK /\ WorkerInv(w) /\ \A c \in Bookings : RowsInv(c)
  BY TypesOfData DEF LocksInv
<1>2. CASE CommitExpiry(w)
  <2>1. /\ Release(w) /\ ranOut' = ranOut /\ payment' = payment /\ refund' = refund
        /\ booking' = [b \in Bookings |-> IF b \in Expires(w) THEN "expired" ELSE booking[b]]
    BY <1>2 DEF CommitExpiry
  <2>2. DataOK'
    BY <1>1, <2>1 DEF DataOK, Status
  <2>3. ASSUME NEW c \in Bookings
        PROVE  May(w, c)
    <3>1. CASE c \in Expires(w)
      BY <2>1, <3>1 DEF Expires, Locked, Stale, May, Lapses, Owns, SamePayment, SameRefund
    <3>2. CASE c \notin Expires(w)
      BY <2>1, <3>2 DEF May, Same, SamePayment, SameRefund
    <3>. QED
      BY <3>1, <3>2
  <2>. QED
    BY <2>1, <2>2, <2>3
<1>3. CASE CommitHold(w)
  <2>1. /\ Release(w) /\ ranOut' = ranOut /\ payment' = payment /\ refund' = refund
        /\ booking' = [b \in Bookings |-> IF b = subject[w] THEN "held"
                                         ELSE IF b \in Expires(w) THEN "expired" ELSE booking[b]]
    BY <1>3 DEF CommitHold
  <2>2. DataOK'
    BY <1>1, <2>1 DEF DataOK, Status, Blocking
  <2>3. doing[w] = "hold" /\ stage[w] = "checked" /\ booking[subject[w]] = "absent"
    BY <1>1, <1>3 DEF CommitHold, WorkerInv, StageInv, KnownInv
  <2>4. ASSUME NEW c \in Bookings
        PROVE  May(w, c)
    <3>1. CASE c = subject[w]
      BY <2>1, <2>3, <3>1 DEF May, Grants, SamePayment, SameRefund
    <3>2. CASE c # subject[w] /\ c \in Expires(w)
      BY <2>1, <3>2 DEF Expires, Locked, Stale, May, Lapses, Owns, SamePayment, SameRefund
    <3>3. CASE c # subject[w] /\ c \notin Expires(w)
      BY <2>1, <3>3 DEF May, Same, SamePayment, SameRefund
    <3>. QED
      BY <3>1, <3>2, <3>3
  <2>. QED
    BY <2>1, <2>2, <2>4
<1>4. CASE CommitWrites(w)
  <2>1. subject[w] \in Bookings /\ Writes(w, subject[w]) /\ Release(w) /\ ranOut' = ranOut
    BY <1>1, <1>4, SubjectIsBooking DEF CommitWrites, WorkerInv
  <2>2. Moves(w, subject[w]) /\ WritesOnly(subject[w])
    BY <1>1, <2>1, WritesMove
  <2>3. DataOK' /\ \A c \in Bookings \ {subject[w]} : Same(c)
    BY <1>1, <2>1, <2>2, WritesOnlyThere
  <2>. QED
    BY <2>1, <2>2, <2>3 DEF May
<1>5. CASE GiveUp(w)
  BY <1>1, <1>5 DEF GiveUp, dataVars, May, Same, SamePayment, SameRefund, DataOK
<1>. QED
  BY <1>2, <1>3, <1>4, <1>5 DEF Ends

LEMMA EndedIsIdle ==
    ASSUME TypeOK, NEW w \in Workers, Release(w)
    PROVE  /\ WorkerInv(w)'
           /\ doing'[w] = "nothing" /\ \A x \in Rows : lockedBy'[x] # w
<1>1. /\ doing'[w] = "nothing" /\ subject'[w] = Nobody /\ stage'[w] = "locking"
      /\ taken'[w] = 0 /\ late'[w] = {} /\ visits'[w] = {}
  BY DEF TypeOK, Release
<1>2. \A x \in Rows : lockedBy'[x] # w
  BY WorkerAssumption DEF TypeOK, Release
<1>3. SubjectInv(w)' /\ StageInv(w)' /\ KnownInv(w)' /\ FoundInv(w)' /\ OverlapInv(w)'
  BY <1>1 DEF SubjectInv, StageInv, KnownInv, FoundInv, OverlapInv, General, Operation, ReadsClock,
              RefundEvents, RefundAnswers
<1>4. LockInv(w)'
  BY <1>1, <1>2 DEF LockInv
<1>. QED
  BY <1>1, <1>2, <1>3, <1>4 DEF WorkerInv

LEMMA BeginKeeps ==
    ASSUME TypeOK, NEW w \in Workers, WorkerInv(w),
           NEW op \in Operation, NEW b \in Bookings \union {Nobody}, Begin(w, op, b)
    PROVE  WorkerInv(w)'
<1>1. subject[w] = Nobody /\ stage[w] = "locking" /\ taken[w] = 0 /\ visits[w] = {}
  BY DEF WorkerInv, SubjectInv, Begin
<1>2. /\ doing'[w] = op /\ subject'[w] = b
      /\ stage' = stage /\ taken' = taken /\ visits' = visits /\ lockedBy' = lockedBy
      /\ booking' = booking /\ payment' = payment /\ refund' = refund
  BY DEF TypeOK, Begin, dataVars
<1>3. op # "nothing" /\ (op \in General => b = Nobody)
  BY DEF Begin, Operation, ReadsClock
<1>4. op \notin General => b \in Bookings /\ MayBegin(op, b)
  BY DEF Begin
<1>5. SubjectInv(w)'
  BY <1>2, <1>3, <1>4 DEF SubjectInv
<1>6. StageInv(w)'
  <2>1. Len(Plan(op, b)) >= 0
    BY PlanLengths
  <2>2. PlanOf(w)' = Plan(op, b)
    BY <1>2 DEF PlanOf
  <2>. QED
    BY <1>1, <1>2, <2>1, <2>2 DEF StageInv
<1>7. LockInv(w)'
  BY <1>1, <1>2 DEF WorkerInv, LockInv
<1>8. KnownInv(w)'
  <2>1. CASE op \in General
    BY <1>2, <2>1 DEF KnownInv, General, RefundEvents, RefundAnswers
  <2>2. CASE op \notin General
    <3>1. MayBegin(op, b)
      BY <1>4, <2>2
    <3>2. /\ op = "hold" => booking[b] = "absent"
          /\ op \in {"finalize_order", "compensate"} => payment[b] = "initiated"
          /\ op = "captured" => payment[b] \in {"order_created", "failed"}
          /\ op = "failed" => payment[b] \notin {"none", "initiated", "no_order"}
          /\ op \in {"refund_processed", "refund_failed"} => refund[b] # "none"
          /\ op = "finalize_refund" => refund[b] # "none"
          /\ op = "reconcile" => refund[b] # "none"
      BY <3>1 DEF MayBegin, CaptureIsNews
    <3>. QED
      BY <1>2, <3>2 DEF KnownInv, RefundEvents, RefundAnswers
  <2>. QED
    BY <2>1, <2>2
<1>9. FoundInv(w)' /\ OverlapInv(w)'
  BY <1>1, <1>2 DEF FoundInv, OverlapInv
<1>. QED
  BY <1>5, <1>6, <1>7, <1>8, <1>9 DEF WorkerInv

LEMMA NextRowIsThere ==
    ASSUME TypeOK, NEW w \in Workers, SubjectInv(w), Locking(w), taken[w] < Len(PlanOf(w))
    PROVE  NextRow(w) \in Rows
<1>1. doing[w] \in Operation
  BY DEF TypeOK, Locking
<1>2. subject[w] \in Bookings \/ doing[w] \in General
  BY <1>1 DEF SubjectInv
<1>3. taken[w] \in Nat /\ Len(PlanOf(w)) \in Nat
  BY <1>1, PlanLengths DEF TypeOK, PlanOf
<1>4. taken[w] + 1 \in 1..Len(PlanOf(w))
  BY <1>3
<1>. QED
  BY <1>1, <1>2, <1>4, PlannedRows DEF PlanOf, NextRow

LEMMA LockNextKeeps ==
    ASSUME TypeOK, NEW w \in Workers, WorkerInv(w), LockNext(w)
    PROVE  WorkerInv(w)' /\ taken'[w] \in 0..2
<1>1. /\ doing' = doing /\ subject' = subject /\ stage' = stage /\ visits' = visits
      /\ booking' = booking /\ payment' = payment /\ refund' = refund
  BY DEF LockNext, dataVars
<1>2. PlanOf(w)' = PlanOf(w) /\ doing[w] \in Operation /\ stage[w] = "locking"
  BY <1>1 DEF PlanOf, TypeOK, LockNext, Locking
<1>3. taken[w] \in 0..2 /\ Len(PlanOf(w)) \in 0..2 /\ taken[w] < Len(PlanOf(w))
  BY <1>2, PlanLengths DEF TypeOK, PlanOf, LockNext
<1>4. taken'[w] = taken[w] + 1
  BY DEF TypeOK, LockNext
<1>5. NextRow(w) \in Rows /\ lockedBy' = [lockedBy EXCEPT ![NextRow(w)] = w]
  BY NextRowIsThere DEF LockNext, WorkerInv
<1>6. SubjectInv(w)' /\ KnownInv(w)'
  BY <1>1, <1>2 DEF WorkerInv, SubjectInv, KnownInv, Operation, ReadsClock
<1>7. StageInv(w)'
  BY <1>1, <1>2, <1>3, <1>4 DEF WorkerInv, StageInv
<1>8. LockInv(w)'
  <2>1. ASSUME NEW i \in 1..taken'[w]
        PROVE  lockedBy'[PlanOf(w)[i]] = w
    <3>1. CASE i = taken[w] + 1
      BY <1>5, <3>1 DEF TypeOK, NextRow
    <3>2. CASE i # taken[w] + 1
      <4>1. i \in 1..taken[w]
        BY <1>3, <1>4, <3>2
      <4>2. lockedBy[PlanOf(w)[i]] = w
        BY <4>1 DEF WorkerInv, LockInv
      <4>3. PlanOf(w)[i] \in Rows
        <5>1. i \in 1..Len(PlanOf(w))
          BY <1>3, <4>1
        <5>. QED
          BY <1>2, <5>1, PlannedRows DEF PlanOf, WorkerInv, SubjectInv
      <4>. QED
        BY <1>5, <4>2, <4>3 DEF TypeOK
    <3>. QED
      BY <3>1, <3>2
  <2>2. ASSUME NEW x \in Rows, lockedBy'[x] = w
        PROVE  \E i \in 1..taken'[w] : x = PlanOf(w)[i]
    <3>1. CASE x = NextRow(w)
      <4>1. taken[w] + 1 \in 1..taken'[w]
        BY <1>3, <1>4
      <4>. QED
        BY <3>1, <4>1 DEF NextRow
    <3>2. CASE x # NextRow(w)
      <4>1. lockedBy[x] = w
        BY <1>5, <2>2, <3>2 DEF TypeOK
      <4>2. PICK i \in 1..taken[w] : x = PlanOf(w)[i]
        BY <1>2, <4>1 DEF WorkerInv, LockInv
      <4>3. i \in 1..taken'[w]
        BY <1>3, <1>4, <4>2
      <4>. QED
        BY <4>2, <4>3
    <3>. QED
      BY <3>1, <3>2
  <2>. QED
    BY <1>2, <2>1, <2>2 DEF LockInv
<1>9. FoundInv(w)'
  <2>1. taken'[w] = 2 => taken[w] = 1 /\ Continues(w)
    BY <1>3, <1>4 DEF LockNext
  <2>. QED
    BY <1>1, <2>1 DEF FoundInv, Continues
<1>10. OverlapInv(w)'
  BY <1>1, <1>2 DEF OverlapInv
<1>11. taken'[w] \in 0..2
  <2> DEFINE t == taken[w]
             n == Len(PlanOf(w))
  <2>1. t \in 0..2 /\ n \in 0..2 /\ t < n
    BY <1>3
  <2> HIDE DEF t, n
  <2>2. t + 1 \in 0..2
    BY <2>1
  <2>. QED
    BY <1>4, <2>2 DEF t
<1>12. WorkerInv(w)'
  BY <1>6, <1>7, <1>8, <1>9, <1>10 DEF WorkerInv
<1>. QED
  BY <1>11, <1>12

LEMMA StartUpdateKeeps ==
    ASSUME TypeOK, NEW w \in Workers, WorkerInv(w), StartUpdate(w)
    PROVE  WorkerInv(w)'
<1>1. /\ doing' = doing /\ subject' = subject /\ taken' = taken /\ lockedBy' = lockedBy
      /\ booking' = booking /\ payment' = payment /\ refund' = refund
      /\ stage'[w] = "updating"
  BY DEF StartUpdate, dataVars, TypeOK
<1>2. /\ doing[w] \in {"hold", "read_bookings"} /\ taken[w] = Len(PlanOf(w))
      /\ PlanOf(w)' = PlanOf(w)
  BY <1>1 DEF StartUpdate, HasLocks, PlanOf
<1>3. SubjectInv(w)' /\ KnownInv(w)' /\ FoundInv(w)'
  BY <1>1, <1>2 DEF WorkerInv, SubjectInv, KnownInv, FoundInv
<1>4. StageInv(w)'
  <2>1. taken[w] <= Len(PlanOf(w))
    BY <1>2 DEF WorkerInv, StageInv
  <2>. QED
    BY <1>1, <1>2, <2>1 DEF StageInv
<1>5. LockInv(w)' /\ OverlapInv(w)'
  BY <1>1, <1>2 DEF WorkerInv, LockInv, OverlapInv, StartUpdate, HasLocks, Locking
<1>. QED
  BY <1>3, <1>4, <1>5 DEF WorkerInv

LEMMA CheckOverlapKeeps ==
    ASSUME TypeOK, NEW w \in Workers, WorkerInv(w), CheckOverlap(w)
    PROVE  WorkerInv(w)'
<1>1. /\ doing' = doing /\ subject' = subject /\ taken' = taken /\ lockedBy' = lockedBy
      /\ booking' = booking /\ payment' = payment /\ refund' = refund
      /\ late' = late /\ visits' = visits
      /\ stage[w] = "updating" /\ stage'[w] = "checked" /\ doing[w] = "hold" /\ visits[w] = {}
  BY DEF CheckOverlap, dataVars, TypeOK
<1>2. PlanOf(w)' = PlanOf(w) /\ Expires(w)' = Expires(w)
  BY <1>1 DEF PlanOf, Expires, Locked, Stale
<1>3. SubjectInv(w)' /\ StageInv(w)' /\ LockInv(w)' /\ KnownInv(w)' /\ FoundInv(w)'
  BY <1>1, <1>2 DEF WorkerInv, SubjectInv, StageInv, LockInv, KnownInv, FoundInv
<1>4. OverlapInv(w)'
  BY <1>1, <1>2 DEF OverlapInv, CheckOverlap
<1>. QED
  BY <1>3, <1>4 DEF WorkerInv

\* A booking that is locked on the way of an UPDATE disturbs nothing.
LEMMA MoreBookingsKeep ==
    ASSUME TypeOK, NEW w \in Workers, WorkerInv(w), NEW S \in SUBSET Bookings,
           lockedBy' = [x \in Rows |-> IF x \in {Row("bookings", b) : b \in S}
                                       THEN w ELSE lockedBy[x]],
           UNCHANGED <<dataVars, doing, subject, taken, late>>,
           stage'[w] = "updating",
           visits'[w] # {} => doing[w] # "expire_holds",
           doing[w] \in {"hold", "read_bookings", "expire_holds"},
           taken[w] = Len(PlanOf(w))
    PROVE  WorkerInv(w)'
<1>1. /\ doing' = doing /\ subject' = subject /\ taken' = taken
      /\ booking' = booking /\ payment' = payment /\ refund' = refund
      /\ PlanOf(w)' = PlanOf(w)
  BY DEF dataVars, PlanOf
<1>2. SubjectInv(w)' /\ KnownInv(w)' /\ FoundInv(w)' /\ OverlapInv(w)'
  BY <1>1 DEF WorkerInv, SubjectInv, KnownInv, FoundInv, OverlapInv
<1>3. StageInv(w)'
  <2>1. taken[w] <= Len(PlanOf(w))
    BY DEF WorkerInv, StageInv
  <2>. QED
    BY <1>1, <2>1 DEF StageInv
<1>4. LockInv(w)'
  <2>1. ASSUME NEW i \in 1..taken[w]
        PROVE  lockedBy'[PlanOf(w)[i]] = w
    <3>1. lockedBy[PlanOf(w)[i]] = w
      BY DEF WorkerInv, LockInv
    <3>2. PlanOf(w)[i] \in Rows
      <4>1. doing[w] \in Operation /\ (subject[w] \in Bookings \/ doing[w] \in General)
        BY DEF WorkerInv, SubjectInv, TypeOK, Operation, ReadsClock
      <4>. QED
        BY <4>1, PlannedRows DEF PlanOf
    <3>. QED
      BY <3>1, <3>2
  <2>2. ASSUME NEW x \in Rows, lockedBy'[x] = w
        PROVE  (\E i \in 1..taken[w] : x = PlanOf(w)[i]) \/ \E b \in Bookings : x = Row("bookings", b)
    <3>1. CASE x \in {Row("bookings", b) : b \in S}
      BY <3>1
    <3>2. CASE lockedBy[x] = w
      BY <3>2 DEF WorkerInv, LockInv
    <3>. QED
      BY <2>2, <3>1, <3>2
  <2>. QED
    BY <1>1, <2>1, <2>2 DEF LockInv
<1>. QED
  BY <1>2, <1>3, <1>4 DEF WorkerInv

LEMMA VisitRowKeeps ==
    ASSUME TypeOK, NEW w \in Workers, WorkerInv(w), NEW b \in Bookings, VisitRow(w, b)
    PROVE  WorkerInv(w)'
<1>1. stage[w] = "updating" /\ doing[w] # "expire_holds"
  BY DEF VisitRow, WorkerInv, StageInv
<1>2. doing[w] \in {"hold", "read_bookings", "expire_holds"} /\ taken[w] = Len(PlanOf(w))
  BY <1>1 DEF WorkerInv, StageInv
<1>3. lockedBy' = [x \in Rows |-> IF x \in {Row("bookings", c) : c \in {b}} THEN w ELSE lockedBy[x]]
  <2>1. lockedBy' = [lockedBy EXCEPT ![Row("bookings", b)] = w] /\ lockedBy \in [Rows -> Workers \union {Nobody}]
    BY DEF VisitRow, TypeOK
  <2>. QED
    BY <2>1
<1>4. UNCHANGED <<dataVars, doing, subject, taken, late>> /\ stage'[w] = "updating"
  BY <1>1 DEF VisitRow
<1>. QED
  BY <1>1, <1>2, <1>3, <1>4, MoreBookingsKeep

LEMMA SelectBatchKeeps ==
    ASSUME TypeOK, NEW w \in Workers, WorkerInv(w), NEW S \in SUBSET Bookings, SelectBatch(w, S)
    PROVE  WorkerInv(w)'
<1>1. doing[w] = "expire_holds" /\ taken[w] = Len(PlanOf(w)) /\ stage[w] = "locking"
  BY DEF SelectBatch, Has, HasLocks, Locking
<1>2. visits' = visits /\ visits[w] = {}
  BY <1>1 DEF SelectBatch, WorkerInv, StageInv
<1>3. /\ lockedBy' = [x \in Rows |-> IF x \in {Row("bookings", b) : b \in S} THEN w ELSE lockedBy[x]]
      /\ UNCHANGED <<dataVars, doing, subject, taken, late>> /\ stage'[w] = "updating"
  BY DEF SelectBatch, TypeOK
<1>. QED
  BY <1>1, <1>2, <1>3, MoreBookingsKeep

LEMMA AdvancesKeep ==
    ASSUME TypeOK, NEW w \in Workers, WorkerInv(w), Advances(w)
    PROVE  WorkerInv(w)' /\ UNCHANGED dataVars
<1>1. WorkerInv(w)'
  BY BeginKeeps, LockNextKeeps, StartUpdateKeeps, CheckOverlapKeeps, VisitRowKeeps, SelectBatchKeeps
     DEF Advances
<1>2. UNCHANGED dataVars
  BY DEF Advances, Begin, LockNext, StartUpdate, CheckOverlap, VisitRow, SelectBatch
<1>. QED
  BY <1>1, <1>2

-----------------------------------------------------------------------------
(* One step of a worker, for the others.                                    *)

Undisturbed(v) ==
    /\ doing'[v] = doing[v] /\ subject'[v] = subject[v] /\ stage'[v] = stage[v]
    /\ taken'[v] = taken[v] /\ late'[v] = late[v] /\ visits'[v] = visits[v]
    /\ \A x \in Rows : lockedBy'[x] = v <=> lockedBy[x] = v

LEMMA OthersAreUndisturbed ==
    ASSUME TypeOK, NEW w \in Workers, SubjectInv(w), Step(w), NEW v \in Workers, v # w
    PROVE  Undisturbed(v)
<1>1. v # Nobody
  BY WorkerAssumption
<1>2. CASE \E op \in Operation, b \in Bookings \union {Nobody} : Begin(w, op, b)
  BY <1>2 DEF Begin, TypeOK, Undisturbed
<1>3. CASE LockNext(w)
  <2>1. NextRow(w) \in Rows
    BY <1>3, NextRowIsThere DEF LockNext
  <2>. QED
    BY <1>1, <1>3, <2>1 DEF LockNext, TypeOK, Undisturbed
<1>4. CASE StartUpdate(w) \/ CheckOverlap(w)
  BY <1>4 DEF StartUpdate, CheckOverlap, TypeOK, Undisturbed
<1>5. CASE \E b \in Bookings : VisitRow(w, b)
  BY <1>1, <1>5, RowsAreThere DEF VisitRow, TypeOK, Undisturbed
<1>6. CASE \E S \in SUBSET Bookings : SelectBatch(w, S)
  <2>1. PICK S \in SUBSET Bookings : SelectBatch(w, S)
    BY <1>6
  <2>2. \A x \in Rows : x \in {Row("bookings", b) : b \in S} => lockedBy[x] = Nobody
    BY <2>1 DEF SelectBatch
  <2>3. \A x \in Rows : lockedBy'[x] = v <=> lockedBy[x] = v
    BY <1>1, <2>1, <2>2 DEF SelectBatch
  <2>. QED
    BY <2>1, <2>3 DEF SelectBatch, TypeOK, Undisturbed
<1>7. CASE Release(w)
  <2>1. \A x \in Rows : lockedBy'[x] = v <=> lockedBy[x] = v
    BY <1>1, <1>7 DEF Release, TypeOK
  <2>. QED
    BY <1>7, <2>1 DEF Release, TypeOK, Undisturbed
<1>. QED
  BY <1>2, <1>3, <1>4, <1>5, <1>6, <1>7
  DEF Step, CommitExpiry, CommitHold, CommitWrites, GiveUp

LEMMA NotBoth ==
    ASSUME NEW v, NEW w, v # w, NEW table, NEW b, Owns(v, table, b)
    PROVE  ~Owns(w, table, b)
BY DEF Owns

\* What a request was taken up for is not undone by another transaction.
LEMMA OthersKeepKnown ==
    ASSUME LocksInv, NEW w \in Workers, NEW v \in Workers, v # w, Undisturbed(v),
           \A c \in Bookings : May(w, c)
    PROVE  KnownInv(v)'
<1> DEFINE b == subject[v]
<1>1. TypeOK /\ WorkerInv(v) /\ OnceInv(v, w)
  BY DEF LocksInv
<1>2. doing'[v] = doing[v] /\ subject'[v] = b
  BY DEF Undisturbed
<1>3. CASE doing[v] \notin Operation \ General
  BY <1>2, <1>3 DEF KnownInv, General, Operation, ReadsClock, RefundEvents, RefundAnswers
<1>4. CASE doing[v] \in Operation \ General
  <2>1. b \in Bookings
    BY <1>1, <1>4 DEF WorkerInv, SubjectInv
  <2>2. RowsInv(b) /\ May(w, b) /\ KnownInv(v)
    BY <1>1, <2>1 DEF LocksInv, WorkerInv
  <2>3. doing[v] = "hold" => booking'[b] = "absent"
    <3>1. CASE doing[v] = "hold"
      <4>1. booking[b] = "absent" /\ payment[b] = "none" /\ refund[b] = "none"
        BY <2>2, <3>1 DEF KnownInv, RowsInv
      <4>2. ~Grants(w, b)
        BY <1>1, <3>1 DEF Grants, OnceInv
      <4>3. ~Lapses(w, b) /\ ~Pays(w, b) /\ ~Cancels(w, b) /\ ~Refunds(w, b) /\ ~Charges(w, b)
        BY <4>1 DEF Lapses, Pays, Cancels, Refunds, Charges
      <4>4. ~Answers(w, b)
        BY <4>1 DEF Answers, PaymentOps
      <4>. QED
        BY <2>2, <4>1, <4>2, <4>3, <4>4 DEF May, Moves, Same
    <3>. QED
      BY <3>1
  <2>4. doing[v] \in {"finalize_order", "compensate"} => payment'[b] = "initiated"
    <3>1. CASE doing[v] \in {"finalize_order", "compensate"}
      <4>1. payment[b] = "initiated" /\ refund[b] = "none"
        BY <2>2, <3>1 DEF KnownInv, RowsInv
      <4>2. ~Pays(w, b) /\ ~Refunds(w, b)
        BY <4>1 DEF Pays, Refunds
      <4>3. ~Answers(w, b)
        <5>1. doing[w] \notin {"captured", "failed"} \/ ~Answers(w, b)
          BY <4>1 DEF Answers
        <5>2. subject[w] = b => doing[w] \notin {"finalize_order", "compensate"}
          BY <1>1, <3>1 DEF OnceInv
        <5>. QED
          BY <5>1, <5>2 DEF Answers, PaymentOps
      <4>. QED
        BY <2>2, <4>1, <4>2, <4>3
        DEF May, Moves, Same, Grants, Lapses, Cancels, Charges, SamePayment
    <3>. QED
      BY <3>1
  <2>5. doing[v] = "captured" => payment'[b] \in {"order_created", "failed"}
    <3>1. CASE doing[v] = "captured"
      <4>1. payment[b] \in {"order_created", "failed"} /\ refund[b] = "none"
        BY <2>2, <3>1 DEF KnownInv, RowsInv
      <4>2. ~Pays(w, b) /\ ~Refunds(w, b)
        BY <4>1 DEF Pays, Refunds
      <4>3. Answers(w, b) => payment'[b] = "failed"
        <5>1. Answers(w, b) => doing[w] \notin {"finalize_order", "compensate"}
          BY <4>1 DEF Answers
        <5>2. Answers(w, b) => doing[w] # "captured"
          BY <1>1, <3>1 DEF OnceInv, Answers
        <5>. QED
          BY <5>1, <5>2 DEF Answers, PaymentOps
      <4>. QED
        BY <2>2, <4>1, <4>2, <4>3
        DEF May, Moves, Same, Grants, Lapses, Cancels, Charges, SamePayment
    <3>. QED
      BY <3>1
  <2>6. doing[v] = "failed" => payment'[b] \notin {"none", "initiated", "no_order"}
    <3>1. CASE doing[v] = "failed"
      <4>1. payment[b] \notin {"none", "initiated", "no_order"}
        BY <2>2, <3>1 DEF KnownInv
      <4>2. ~Pays(w, b)
        BY <4>1 DEF Pays
      <4>3. Answers(w, b) => payment'[b] \in {"captured", "failed"}
        <5>1. Answers(w, b) => doing[w] \notin {"finalize_order", "compensate"}
          BY <4>1 DEF Answers
        <5>. QED
          BY <5>1 DEF Answers, PaymentOps
      <4>4. Refunds(w, b) => payment'[b] = "refunded" \/ payment'[b] = payment[b]
        BY DEF Refunds, SamePayment
      <4>. QED
        BY <2>2, <4>1, <4>2, <4>3, <4>4
        DEF May, Moves, Same, Grants, Lapses, Cancels, Charges, SamePayment
    <3>. QED
      BY <3>1
  <2>7. doing[v] \in RefundEvents \union RefundAnswers => refund'[b] # "none"
    <3>1. refund[b] # "none" => refund'[b] # "none"
      BY <2>2
      DEF May, Moves, Same, Grants, Lapses, Pays, Answers, Cancels, Refunds, Charges, SameRefund
    <3>. QED
      BY <2>2, <3>1 DEF KnownInv
  <2>. QED
    BY <1>2, <2>3, <2>4, <2>5, <2>6, <2>7 DEF KnownInv
<1>. QED
  BY <1>3, <1>4

\* What was found under a lock stays so while the lock is held.
LEMMA OthersKeepFound ==
    ASSUME LocksInv, NEW w \in Workers, NEW v \in Workers, v # w, Undisturbed(v),
           \A c \in Bookings : May(w, c)
    PROVE  FoundInv(v)'
<1> DEFINE b == subject[v]
<1>1. TypeOK /\ WorkerInv(v)
  BY DEF LocksInv
<1>2. doing'[v] = doing[v] /\ subject'[v] = b /\ taken'[v] = taken[v]
  BY DEF Undisturbed
<1>3. CASE taken[v] # 2 \/ doing[v] \notin Operation \ General
  BY <1>2, <1>3 DEF FoundInv, General, Operation, ReadsClock
<1>4. CASE taken[v] = 2 /\ doing[v] \in Operation \ General
  <2>1. b \in Bookings
    BY <1>1, <1>4 DEF WorkerInv, SubjectInv
  <2>2. RowsInv(b) /\ May(w, b) /\ FoundInv(v) /\ KnownInv(v)
    BY <1>1, <2>1 DEF LocksInv, WorkerInv
  <2>3. doing[v] = "cancel" => booking'[b] = "confirmed" /\ payment'[b] = "captured"
    <3>1. CASE doing[v] = "cancel"
      <4>1. Owns(v, "bookings", b) /\ Owns(v, "payments", b)
        BY <1>1, <1>4, <3>1, HasItsTwoRows
      <4>2. ~Owns(w, "bookings", b) /\ ~Owns(w, "payments", b)
        BY <4>1, NotBoth
      <4>3. booking[b] = "confirmed" /\ payment[b] = "captured"
        BY <1>4, <2>2, <3>1 DEF FoundInv
      <4>. QED
        BY <2>2, <4>2, <4>3
        DEF May, Moves, Same, Grants, Lapses, Pays, Answers, Cancels, Refunds, Charges, SamePayment
    <3>. QED
      BY <3>1
  <2>4. doing[v] = "failed" => payment'[b] \notin {"captured", "refunded"}
    <3>1. CASE doing[v] = "failed"
      <4>1. Owns(v, "bookings", b) /\ Owns(v, "payments", b)
        BY <1>1, <1>4, <3>1, HasItsTwoRows DEF PaymentOps
      <4>2. ~Owns(w, "bookings", b) /\ ~Owns(w, "payments", b)
        BY <4>1, NotBoth
      <4>3. payment[b] \notin {"captured", "refunded"}
        BY <1>4, <2>2, <3>1 DEF FoundInv
      <4>. QED
        BY <2>2, <4>2, <4>3
        DEF May, Moves, Same, Grants, Lapses, Pays, Answers, Cancels, Refunds, Charges, SamePayment
    <3>. QED
      BY <3>1
  <2>5. doing[v] = "reconcile" => refund'[b] = "pending"
    <3>1. CASE doing[v] = "reconcile"
      <4>1. Owns(v, "payments", b) /\ Owns(v, "refunds", b)
        BY <1>1, <1>4, <3>1, HasItsTwoRows DEF RefundAnswers
      <4>2. ~Owns(w, "payments", b)
        BY <4>1, NotBoth
      <4>3. refund[b] = "pending" /\ booking[b] = "cancelled"
        BY <1>4, <2>2, <3>1 DEF FoundInv, RowsInv
      <4>. QED
        BY <2>2, <4>2, <4>3
        DEF May, Moves, Same, Grants, Lapses, Pays, Answers, Cancels, Refunds, Charges, SameRefund
    <3>. QED
      BY <3>1
  <2>6. doing[v] \in SessionOps => booking'[b] = booking[b]
    <3>1. CASE doing[v] \in SessionOps
      <4>1. Owns(v, "bookings", b)
        BY <1>1, <1>4, <3>1, HasItsTwoRows
      <4>2. ~Owns(w, "bookings", b)
        BY <4>1, NotBoth
      <4>3. booking[b] # "absent"
        BY <1>4, <2>2, <3>1 DEF FoundInv, SessionOps
      <4>. QED
        BY <2>2, <4>2, <4>3
        DEF May, Moves, Same, Grants, Lapses, Pays, Answers, Cancels, Refunds, Charges
    <3>. QED
      BY <3>1
  <2>. QED
    BY <1>2, <1>4, <2>2, <2>3, <2>4, <2>5, <2>6 DEF FoundInv, SessionOps
<1>. QED
  BY <1>3, <1>4

\* No hold commits while another one has checked: both would have the point.
LEMMA OthersKeepOverlap ==
    ASSUME LocksInv, NEW w \in Workers, NEW v \in Workers, v # w, Undisturbed(v),
           \A c \in Bookings : May(w, c)
    PROVE  OverlapInv(v)'
<1>1. TypeOK /\ WorkerInv(v) /\ WorkerInv(w)
  BY DEF LocksInv
<1>2. /\ doing'[v] = doing[v] /\ subject'[v] = subject[v] /\ stage'[v] = stage[v]
      /\ late'[v] = late[v] /\ taken'[v] = taken[v]
  BY DEF Undisturbed
<1>3. SUFFICES ASSUME stage[v] = "checked", NEW c \in Bookings, c \notin Expires(v)',
                      <<subject[v], c>> \in Conflicts
               PROVE  booking'[c] \notin Blocking
  BY <1>2 DEF OverlapInv
<1>4. lockedBy[Point] = v
  <2>1. doing[v] = "hold" /\ taken[v] = 2
    BY <1>1, <1>3, PlanLengths DEF WorkerInv, StageInv, PlanOf, Operation, ReadsClock
  <2>. QED
    BY <1>1, <2>1, HasItsTwoRows DEF Operation, ReadsClock
<1>5. ~Grants(w, c)
  <2>1. SUFFICES ASSUME doing[w] = "hold", stage[w] = "checked"
                 PROVE  FALSE
    BY DEF Grants
  <2>2. taken[w] = 2
    BY <1>1, <2>1, PlanLengths DEF WorkerInv, StageInv, PlanOf, Operation, ReadsClock
  <2>3. lockedBy[Point] = w
    BY <1>1, <2>1, <2>2, HasItsTwoRows DEF Operation, ReadsClock
  <2>. QED
    BY <1>4, <2>3
<1>6. CASE c \in Expires(v)
  <2>1. lockedBy[Row("bookings", c)] = v /\ c \in late[v] /\ booking[c] = "held"
    BY <1>6 DEF Expires, Locked, Stale
  <2>2. booking'[c] # "held"
    BY <1>2, <1>3, <2>1, RowsAreThere DEF Expires, Locked, Stale, Undisturbed
  <2>3. ~Owns(w, "bookings", c)
    BY <2>1 DEF Owns
  <2>. QED
    BY <1>5, <2>1, <2>2, <2>3
    DEF May, Moves, Same, Lapses, Pays, Answers, Cancels, Refunds, Charges
<1>7. CASE c \notin Expires(v)
  <2>1. booking[c] \notin Blocking
    BY <1>1, <1>3, <1>7 DEF WorkerInv, OverlapInv
  <2>. QED
    BY <1>5, <2>1
    DEF May, Moves, Same, Lapses, Pays, Answers, Cancels, Refunds, Charges, Blocking
<1>. QED
  BY <1>6, <1>7

LEMMA OthersKeep ==
    ASSUME LocksInv, NEW w \in Workers, NEW v \in Workers, v # w, Undisturbed(v),
           \A c \in Bookings : May(w, c)
    PROVE  WorkerInv(v)'
<1>1. TypeOK /\ WorkerInv(v)
  BY DEF LocksInv
<1>2. /\ doing'[v] = doing[v] /\ subject'[v] = subject[v] /\ stage'[v] = stage[v]
      /\ taken'[v] = taken[v] /\ visits'[v] = visits[v]
      /\ PlanOf(v)' = PlanOf(v)
  BY DEF Undisturbed, PlanOf
<1>3. SubjectInv(v)' /\ StageInv(v)'
  BY <1>1, <1>2 DEF WorkerInv, SubjectInv, StageInv
<1>4. LockInv(v)'
  <2>1. ASSUME NEW i \in 1..taken[v]
        PROVE  lockedBy'[PlanOf(v)[i]] = v
    <3>1. lockedBy[PlanOf(v)[i]] = v
      BY <1>1 DEF WorkerInv, LockInv
    <3>2. doing[v] # "nothing" /\ i \in Nat /\ taken[v] \in Nat
      BY <1>1 DEF WorkerInv, SubjectInv, TypeOK
    <3>3. doing[v] \in Operation /\ (subject[v] \in Bookings \/ doing[v] \in General)
      BY <1>1, <3>2 DEF WorkerInv, SubjectInv, TypeOK
    <3>4. i \in 1..Len(PlanOf(v))
      BY <1>1, <3>2, <3>3, PlanLengths DEF WorkerInv, StageInv, PlanOf
    <3>5. PlanOf(v)[i] \in Rows
      BY <3>3, <3>4, PlannedRows DEF PlanOf
    <3>. QED
      BY <3>1, <3>5 DEF Undisturbed
  <2>2. \A x \in Rows :
           lockedBy'[x] = v => \/ \E i \in 1..taken[v] : x = PlanOf(v)[i]
                               \/ stage[v] # "locking" /\ \E b \in Bookings : x = Row("bookings", b)
    BY <1>1 DEF WorkerInv, LockInv, Undisturbed
  <2>. QED
    BY <1>2, <2>1, <2>2 DEF LockInv
<1>. QED
  BY <1>3, <1>4, OthersKeepKnown, OthersKeepFound, OthersKeepOverlap DEF WorkerInv

-----------------------------------------------------------------------------
(* The invariant.                                                           *)

WorkOK ==
    /\ ranOut \subseteq Bookings
    /\ lockedBy \in [Rows -> Workers \union {Nobody}]
    /\ doing \in [Workers -> Operation \union {"nothing"}]
    /\ subject \in [Workers -> Bookings \union {Nobody}]
    /\ stage \in [Workers -> {"locking", "updating", "checked"}]
    /\ taken \in [Workers -> 0 .. 2]
    /\ late \in [Workers -> SUBSET Bookings]
    /\ visits \in [Workers -> SUBSET Bookings]

LEMMA TypesOfWork ==
    ASSUME DataOK', WorkOK', \A v \in Workers : SubjectInv(v)' /\ LockInv(v)'
    PROVE  TypeOK'
<1>1. ASSUME NEW x \in Rows, lockedBy'[x] # Nobody
      PROVE  doing'[lockedBy'[x]] # "nothing"
  <2> DEFINE v == lockedBy'[x]
  <2>1. v \in Workers
    BY <1>1 DEF WorkOK
  <2>2. SUFFICES ASSUME doing'[v] = "nothing"
                 PROVE  FALSE
    OBVIOUS
  <2>3. stage'[v] = "locking" /\ taken'[v] = 0
    BY <2>1, <2>2 DEF SubjectInv
  <2>. QED
    BY <2>1, <2>3 DEF LockInv
<1>. QED
  BY <1>1 DEF DataOK, WorkOK, TypeOK, Status, PaymentStatus, RefundStatus

LEMMA TypesAreKept ==
    ASSUME TypeOK, NEW w \in Workers, WorkerInv(w), Step(w), ranOut' = ranOut
    PROVE  WorkOK'
<1>1. CASE Release(w)
  BY <1>1 DEF TypeOK, WorkOK, Release
<1>2. CASE \E op \in Operation, b \in Bookings \union {Nobody} : Begin(w, op, b)
  <2>1. PICK op \in Operation, b \in Bookings \union {Nobody} : Begin(w, op, b)
    BY <1>2
  <2>2. /\ doing' = [doing EXCEPT ![w] = op] /\ subject' = [subject EXCEPT ![w] = b]
        /\ lockedBy' = lockedBy /\ stage' = stage /\ taken' = taken /\ visits' = visits
    BY <2>1 DEF Begin
  <2>3. late' \in [Workers -> SUBSET Bookings]
    BY <2>1 DEF Begin, TypeOK
  <2>. QED
    BY <2>2, <2>3 DEF TypeOK, WorkOK
<1>3. CASE LockNext(w)
  <2>1. taken'[w] \in 0..2
    BY <1>3, LockNextKeeps
  <2>2. taken' \in [Workers -> 0..2]
    <3> DEFINE n == taken[w] + 1
    <3>1. taken' = [taken EXCEPT ![w] = n] /\ taken \in [Workers -> 0..2]
      BY <1>3 DEF LockNext, TypeOK
    <3> HIDE DEF n
    <3>2. n \in 0..2
      BY <2>1, <3>1
    <3>. QED
      BY <3>1, <3>2
  <2>3. lockedBy' \in [Rows -> Workers \union {Nobody}]
    BY <1>3 DEF LockNext, TypeOK
  <2>. QED
    BY <1>3, <2>2, <2>3 DEF LockNext, TypeOK, WorkOK
<1>4. CASE StartUpdate(w)
  BY <1>4 DEF StartUpdate, Stale, TypeOK, WorkOK
<1>5. CASE CheckOverlap(w)
  BY <1>5 DEF CheckOverlap, TypeOK, WorkOK
<1>6. CASE \E b \in Bookings : VisitRow(w, b)
  <2>1. PICK b \in Bookings : VisitRow(w, b)
    BY <1>6
  <2>2. visits' \in [Workers -> SUBSET Bookings]
    BY <2>1 DEF VisitRow, TypeOK
  <2>3. lockedBy' \in [Rows -> Workers \union {Nobody}]
    BY <2>1 DEF VisitRow, TypeOK
  <2>. QED
    BY <2>1, <2>2, <2>3 DEF VisitRow, dataVars, TypeOK, WorkOK
<1>7. CASE \E S \in SUBSET Bookings : SelectBatch(w, S)
  BY <1>7 DEF SelectBatch, TypeOK, WorkOK
<1>. QED
  BY <1>1, <1>2, <1>3, <1>4, <1>5, <1>6, <1>7
  DEF Step, CommitExpiry, CommitHold, CommitWrites, GiveUp

LEMMA OnceIsKept ==
    ASSUME LocksInv, NEW w \in Workers, Step(w),
           NEW u \in Workers, NEW v \in Workers, u # v
    PROVE  OnceInv(u, v)'
<1>1. TypeOK /\ WorkerInv(w) /\ SubjectInv(w) /\ OnceInv(u, v)
  BY DEF LocksInv, WorkerInv
<1>2. ASSUME NEW x \in Workers, x # w
      PROVE  doing'[x] = doing[x] /\ subject'[x] = subject[x]
  BY <1>1, <1>2, OthersAreUndisturbed DEF Undisturbed
<1>3. CASE u # w /\ v # w
  <2>1. doing'[u] = doing[u] /\ subject'[u] = subject[u] /\ doing'[v] = doing[v] /\ subject'[v] = subject[v]
    BY <1>2, <1>3
  <2>. QED
    BY <1>1, <2>1 DEF OnceInv
<1>4. CASE doing'[w] = doing[w] /\ subject'[w] = subject[w]
  <2>1. doing'[u] = doing[u] /\ subject'[u] = subject[u] /\ doing'[v] = doing[v] /\ subject'[v] = subject[v]
    BY <1>2, <1>4
  <2>. QED
    BY <1>1, <2>1 DEF OnceInv
<1>5. CASE doing'[w] = "nothing" /\ (u = w \/ v = w)
  BY <1>5 DEF OnceInv
<1>6. CASE (u = w \/ v = w) /\ \E op \in Operation, b \in Bookings \union {Nobody} : Begin(w, op, b)
  <2>1. PICK op \in Operation, b \in Bookings \union {Nobody} : Begin(w, op, b)
    BY <1>6
  <2>2. doing'[w] = op /\ subject'[w] = b
    BY <1>1, <2>1 DEF Begin, TypeOK
  <2>3. /\ op = "hold" => Alone("hold", b)
        /\ op \in {"finalize_order", "compensate"} => Alone("finalize_order", b) /\ Alone("compensate", b)
        /\ op = "captured" => Alone("captured", b)
    BY <2>1 DEF Begin, MayBegin, CaptureIsNews, General
  <2>4. ASSUME NEW x \in Workers, x # w, subject'[x] = subject'[w]
        PROVE  /\ op = "hold" => doing'[x] # "hold"
               /\ op \in {"finalize_order", "compensate"} => doing'[x] \notin {"finalize_order", "compensate"}
               /\ op = "captured" => doing'[x] # "captured"
    <3>1. doing'[x] = doing[x] /\ subject[x] = b
      BY <1>2, <2>2, <2>4
    <3>. QED
      BY <2>3, <2>4, <3>1 DEF Alone
  <2>5. CASE u = w
    BY <2>2, <2>4, <2>5 DEF OnceInv
  <2>6. CASE v = w
    BY <2>2, <2>4, <2>6 DEF OnceInv
  <2>. QED
    BY <1>6, <2>5, <2>6
<1>7. CASE Ends(w)
  <2>1. doing'[w] = "nothing"
    BY <1>1, <1>7, EndsWrite, EndedIsIdle
  <2>. QED
    BY <1>3, <1>5, <2>1
<1>8. CASE Advances(w)
  <2>1. CASE \E op \in Operation, b \in Bookings \union {Nobody} : Begin(w, op, b)
    BY <1>3, <1>6, <2>1
  <2>2. CASE LockNext(w) \/ StartUpdate(w) \/ CheckOverlap(w) \/ \E b \in Bookings : VisitRow(w, b)
    <3>1. doing' = doing /\ subject' = subject
      BY <2>2 DEF LockNext, StartUpdate, CheckOverlap, VisitRow
    <3>. QED
      BY <1>4, <3>1
  <2>3. CASE \E S \in SUBSET Bookings : SelectBatch(w, S)
    BY <1>4, <2>3 DEF SelectBatch
  <2>. QED
    BY <1>8, <2>1, <2>2, <2>3 DEF Advances
<1>. QED
  BY <1>7, <1>8, StepsAreTwofold

LEMMA StepEffects ==
    ASSUME LocksInv, NEW w \in Workers, Step(w)
    PROVE  /\ WorkerInv(w)' /\ ranOut' = ranOut /\ DataOK'
           /\ \A c \in Bookings : May(w, c)
<1>1. TypeOK /\ DataOK /\ WorkerInv(w)
  BY TypesOfData DEF LocksInv
<1>2. CASE Ends(w)
  BY <1>1, <1>2, EndsWrite, EndedIsIdle
<1>3. CASE Advances(w)
  <2>1. WorkerInv(w)' /\ UNCHANGED dataVars
    BY <1>1, <1>3, AdvancesKeep
  <2>. QED
    BY <1>1, <2>1 DEF dataVars, DataOK, May, Same, SamePayment, SameRefund
<1>. QED
  BY <1>2, <1>3, StepsAreTwofold

LEMMA LocksInvInit ==
    ASSUME Init
    PROVE  LocksInv
<1>1. DataOK /\ WorkOK
  BY DEF Init, DataOK, WorkOK, Status, PaymentStatus, RefundStatus
<1>2. ASSUME NEW v \in Workers
      PROVE  WorkerInv(v)
  <2>1. /\ doing[v] = "nothing" /\ subject[v] = Nobody /\ stage[v] = "locking"
        /\ taken[v] = 0 /\ visits[v] = {}
    BY DEF Init
  <2>2. \A x \in Rows : lockedBy[x] # v
    BY WorkerAssumption DEF Init
  <2>3. SubjectInv(v) /\ StageInv(v) /\ KnownInv(v) /\ FoundInv(v) /\ OverlapInv(v)
    BY <2>1 DEF SubjectInv, StageInv, KnownInv, FoundInv, OverlapInv, General, Operation, ReadsClock,
                RefundEvents, RefundAnswers
  <2>4. LockInv(v)
    BY <2>1, <2>2 DEF LockInv
  <2>. QED
    BY <2>3, <2>4 DEF WorkerInv
<1>3. TypeOK
  BY <1>1 DEF Init, DataOK, WorkOK, TypeOK, Status, PaymentStatus, RefundStatus
<1>4. \A v \in Workers, w \in Workers : v # w => OnceInv(v, w)
  BY DEF Init, OnceInv
<1>5. \A b \in Bookings : RowsInv(b)
  BY DEF Init, RowsInv
<1>. QED
  BY <1>2, <1>3, <1>4, <1>5 DEF LocksInv

LEMMA LocksInvStep ==
    ASSUME LocksInv, NEW w \in Workers, Step(w)
    PROVE  LocksInv'
<1>1. TypeOK /\ DataOK /\ WorkerInv(w) /\ \A b \in Bookings : RowsInv(b)
  BY TypesOfData DEF LocksInv
<1>2. WorkerInv(w)' /\ ranOut' = ranOut /\ DataOK' /\ \A c \in Bookings : May(w, c)
  BY StepEffects
<1>3. ASSUME NEW v \in Workers
      PROVE  WorkerInv(v)'
  <2>1. CASE v = w
    BY <1>2, <2>1
  <2>2. CASE v # w
    <3>1. Undisturbed(v)
      BY <1>1, <2>2, OthersAreUndisturbed DEF WorkerInv
    <3>. QED
      BY <1>2, <2>2, <3>1, OthersKeep
  <2>. QED
    BY <2>1, <2>2
<1>4. ASSUME NEW u \in Workers, NEW v \in Workers, u # v
      PROVE  OnceInv(u, v)'
  BY <1>4, OnceIsKept
<1>5. ASSUME NEW b \in Bookings
      PROVE  RowsInv(b)'
  BY <1>1, <1>2, MovesKeepRows
<1>6. TypeOK'
  <2>1. WorkOK'
    BY <1>1, <1>2, TypesAreKept
  <2>2. \A v \in Workers : SubjectInv(v)' /\ LockInv(v)'
    BY <1>3 DEF WorkerInv
  <2>3. DataOK'
    BY <1>2
  <2>. QED
    BY <2>1, <2>2, <2>3, TypesOfWork
<1>. QED
  BY <1>3, <1>4, <1>5, <1>6 DEF LocksInv

\* Time runs out for a hold without anybody's locks.
LEMMA LocksInvQuiet ==
    ASSUME LocksInv, UNCHANGED <<booking, payment, refund, lockedBy, workVars>>,
           ranOut' \subseteq Bookings
    PROVE  LocksInv'
<1>1. /\ booking' = booking /\ payment' = payment /\ refund' = refund /\ lockedBy' = lockedBy
      /\ doing' = doing /\ subject' = subject /\ stage' = stage /\ taken' = taken
      /\ late' = late /\ visits' = visits
  BY DEF workVars
<1>2. TypeOK'
  BY <1>1 DEF LocksInv, TypeOK
<1>3. ASSUME NEW v \in Workers
      PROVE  WorkerInv(v)'
  <2>1. PlanOf(v)' = PlanOf(v) /\ Expires(v)' = Expires(v)
    BY <1>1 DEF PlanOf, Expires, Locked, Stale
  <2>2. WorkerInv(v)
    BY DEF LocksInv
  <2>3. SubjectInv(v)' /\ StageInv(v)'
    BY <1>1, <2>1, <2>2 DEF WorkerInv, SubjectInv, StageInv
  <2>4. LockInv(v)' /\ KnownInv(v)'
    BY <1>1, <2>1, <2>2 DEF WorkerInv, LockInv, KnownInv
  <2>5. FoundInv(v)' /\ OverlapInv(v)'
    BY <1>1, <2>1, <2>2 DEF WorkerInv, FoundInv, OverlapInv
  <2>. QED
    BY <2>3, <2>4, <2>5 DEF WorkerInv
<1>4. \A v \in Workers, w \in Workers : v # w => OnceInv(v, w)'
  BY <1>1 DEF LocksInv, OnceInv
<1>5. \A b \in Bookings : RowsInv(b)'
  BY <1>1 DEF LocksInv, RowsInv
<1>. QED
  BY <1>2, <1>3, <1>4, <1>5 DEF LocksInv

LEMMA LocksInvAlways == Spec => []LocksInv
<1>1. ASSUME LocksInv, [Next]_vars
      PROVE  LocksInv'
  <2>1. CASE \E w \in Workers : Step(w)
    BY <1>1, <2>1, LocksInvStep
  <2>2. CASE \E b \in Bookings : RunOut(b)
    <3>1. ranOut' \subseteq Bookings
      BY <1>1, <2>2 DEF RunOut, LocksInv, TypeOK
    <3>. QED
      BY <1>1, <2>2, <3>1, LocksInvQuiet DEF RunOut
  <2>3. CASE UNCHANGED vars
    <3>1. ranOut' \subseteq Bookings
      BY <1>1, <2>3 DEF vars, dataVars, LocksInv, TypeOK
    <3>. QED
      BY <1>1, <2>3, <3>1, LocksInvQuiet DEF vars, dataVars
  <2>. QED
    BY <1>1, <2>1, <2>2, <2>3 DEF Next
<1>. QED
  BY <1>1, LocksInvInit, PTL DEF Spec

-----------------------------------------------------------------------------
(* What follows about the rows.                                             *)

\* Every row of the model keeps its type, and whoever has a lock is at work: no
\* way out of a transaction forgets one.
THEOREM LocksAreReleased == Spec => []TypeOK
<1>1. LocksInv => TypeOK
  BY DEF LocksInv
<1>. QED
  BY <1>1, LocksInvAlways, PTL

\* A booking waits for payment exactly while its attempt is open, though the
\* expiry of a hold, the begin of a payment and Razorpay's answers lock their
\* rows one at a time.  (_expire_stale_holds, _begin_payment_attempt)
THEOREM AttemptsFollowBookingUnderLocks == Spec => []AttemptsFollowBooking
<1>1. LocksInv => AttemptsFollowBooking
  BY DEF LocksInv, RowsInv, AttemptsFollowBooking
<1>. QED
  BY <1>1, LocksInvAlways, PTL

\* Refund and payment say the same, though an event locks the payment first and
\* an answer the refund.  (_apply_refund_event, _finalize_refund)
THEOREM RefundsAgreeUnderLocks == Spec => []RefundsAgree
<1>1. LocksInv => RefundsAgree
  BY DEF LocksInv, RowsInv, RefundsAgree
<1>. QED
  BY <1>1, LocksInvAlways, PTL

-----------------------------------------------------------------------------
(* The slots: a commit grants, pays for, uses or gives back.                *)

Phases == [b \in Bookings |-> PhaseOf(b)]

LEMMA PhaseCases ==
    ASSUME NEW b \in Bookings
    PROVE  /\ booking[b] = "absent" => PhaseOf(b) = "free"
           /\ booking[b] \in {"held", "payment_pending"} => PhaseOf(b) = "reserved"
           /\ booking[b] = "confirmed" => PhaseOf(b) = "paid"
           /\ booking[b] = "active" => PhaseOf(b) = "in_use"
           /\ booking[b] = "completed" => PhaseOf(b) = "used"
           /\ booking[b] \in {"cancelled", "expired"} => PhaseOf(b) = "released"
BY DEF PhaseOf

LEMMA PhaseCasesNext ==
    ASSUME NEW b \in Bookings
    PROVE  /\ booking'[b] = "absent" => PhaseOf(b)' = "free"
           /\ booking'[b] \in {"held", "payment_pending"} => PhaseOf(b)' = "reserved"
           /\ booking'[b] = "confirmed" => PhaseOf(b)' = "paid"
           /\ booking'[b] = "active" => PhaseOf(b)' = "in_use"
           /\ booking'[b] = "completed" => PhaseOf(b)' = "used"
           /\ booking'[b] \in {"cancelled", "expired"} => PhaseOf(b)' = "released"
BY DEF PhaseOf

LEMMA SamePhase ==
    ASSUME NEW b \in Bookings, booking'[b] = booking[b]
    PROVE  PhaseOf(b)' = PhaseOf(b)
BY DEF PhaseOf

LEMMA SamePhases ==
    ASSUME \A b \in Bookings : booking'[b] = booking[b]
    PROVE  UNCHANGED Phases
BY SamePhase DEF Phases

LEMMA ExpiriesRelease ==
    ASSUME NEW w, CommitExpiry(w)
    PROVE  Slots!Release(Expires(w))
<1>1. /\ Expires(w) \subseteq Bookings /\ \A c \in Expires(w) : booking[c] = "held"
  BY DEF Expires, Locked, Stale
<1>2. \A c \in Expires(w) : Phases[c] \in {"reserved", "paid"}
  BY <1>1, PhaseCases DEF Phases
<1>3. ASSUME NEW c \in Bookings
      PROVE  PhaseOf(c)' = IF c \in Expires(w) THEN "released" ELSE Phases[c]
  <2>1. booking'[c] = IF c \in Expires(w) THEN "expired" ELSE booking[c]
    BY DEF CommitExpiry
  <2>. QED
    BY <2>1, PhaseCasesNext, SamePhase DEF Phases
<1>4. Phases' = [c \in Bookings |-> IF c \in Expires(w) THEN "released" ELSE Phases[c]]
  BY <1>3 DEF Phases
<1>. QED
  BY <1>2, <1>4 DEF Slots!Release, Phases

LEMMA HoldsReserve ==
    ASSUME TypeOK, NEW w \in Workers, WorkerInv(w), CommitHold(w)
    PROVE  subject[w] \in Bookings /\ Slots!Reserve(subject[w], Expires(w))
<1> DEFINE b == subject[w]
<1>1. doing[w] = "hold" /\ stage[w] = "checked"
  BY DEF CommitHold, WorkerInv, StageInv
<1>2. b \in Bookings /\ booking[b] = "absent"
  BY <1>1 DEF WorkerInv, SubjectInv, KnownInv, Operation, ReadsClock, General
<1>3. Expires(w) \subseteq Bookings /\ \A c \in Expires(w) : booking[c] = "held"
  BY DEF Expires, Locked, Stale
<1>4. Phases[b] = "free" /\ \A c \in Expires(w) : Phases[c] = "reserved"
  BY <1>2, <1>3, PhaseCases DEF Phases
<1>5. ASSUME NEW c \in Bookings \ Expires(w), Phases[c] \in {"reserved", "paid", "in_use"}
      PROVE  <<b, c>> \notin Conflicts
  <2>1. booking[c] \in Blocking
    <3>1. booking[c] \in Blocking \union {"absent", "completed", "cancelled", "expired"}
      BY DEF TypeOK
    <3>2. booking[c] \notin {"absent", "completed", "cancelled", "expired"}
      BY <1>5, PhaseCases DEF Phases
    <3>. QED
      BY <3>1, <3>2
  <2>. QED
    BY <1>1, <2>1 DEF WorkerInv, OverlapInv
<1>6. ASSUME NEW c \in Bookings
      PROVE  PhaseOf(c)' = IF c = b THEN "reserved"
                           ELSE IF c \in Expires(w) THEN "released" ELSE Phases[c]
  <2>1. booking'[c] = IF c = b THEN "held" ELSE IF c \in Expires(w) THEN "expired" ELSE booking[c]
    BY DEF CommitHold
  <2>. QED
    BY <2>1, PhaseCasesNext, SamePhase DEF Phases
<1>7. Phases' = [c \in Bookings |-> IF c = b THEN "reserved"
                                   ELSE IF c \in Expires(w) THEN "released" ELSE Phases[c]]
  BY <1>6 DEF Phases
<1> HIDE DEF b
<1>. QED
  BY <1>2, <1>4, <1>5, <1>7 DEF Slots!Reserve, Slots!Granted, Phases, b

LEMMA PhaseChangesAt ==
    ASSUME NEW b \in Bookings, \A c \in Bookings \ {b} : booking'[c] = booking[c],
           NEW p, PhaseOf(b)' = p
    PROVE  /\ Phases' = [Phases EXCEPT ![b] = p]
           /\ Phases' = [c \in Bookings |-> IF c \in {b} THEN p ELSE Phases[c]]
<1>1. \A c \in Bookings \ {b} : PhaseOf(c)' = PhaseOf(c)
  BY SamePhase
<1>. QED
  BY <1>1 DEF Phases

LEMMA WritesUseSlots ==
    ASSUME NEW w, NEW b \in Bookings, Moves(w, b), \A c \in Bookings \ {b} : Same(c)
    PROVE  [Slots!Next]_Phases
<1>1. \A c \in Bookings \ {b} : booking'[c] = booking[c]
  BY DEF Same
<1>2. CASE PhaseOf(b)' = PhaseOf(b)
  <2>1. Phases' = Phases
    BY <1>1, <1>2, SamePhase DEF Phases
  <2>. QED
    BY <2>1
<1>3. CASE booking[b] \in {"held", "payment_pending", "confirmed"} /\ booking'[b] \in {"cancelled", "expired"}
  <2>1. Phases[b] \in {"reserved", "paid"} /\ PhaseOf(b)' = "released"
    BY <1>3, PhaseCases, PhaseCasesNext DEF Phases
  <2>2. Phases' = [c \in Bookings |-> IF c \in {b} THEN "released" ELSE Phases[c]]
    BY <1>1, <2>1, PhaseChangesAt
  <2>3. Slots!Release({b})
    BY <2>1, <2>2 DEF Slots!Release, Phases
  <2>. QED
    BY <2>3 DEF Slots!Next
<1>4. CASE booking[b] = "payment_pending" /\ booking'[b] = "confirmed"
  <2>1. Phases[b] = "reserved" /\ PhaseOf(b)' = "paid"
    BY <1>4, PhaseCases, PhaseCasesNext DEF Phases
  <2>2. Slots!Pay(b)
    BY <1>1, <2>1, PhaseChangesAt DEF Slots!Pay, Phases
  <2>. QED
    BY <2>2 DEF Slots!Next
<1>5. CASE booking[b] = "confirmed" /\ booking'[b] = "active"
  <2>1. Phases[b] = "paid" /\ PhaseOf(b)' = "in_use"
    BY <1>5, PhaseCases, PhaseCasesNext DEF Phases
  <2>2. Slots!Use(b)
    BY <1>1, <2>1, PhaseChangesAt DEF Slots!Use, Phases
  <2>. QED
    BY <2>2 DEF Slots!Next
<1>6. CASE booking[b] = "active" /\ booking'[b] = "completed"
  <2>1. Phases[b] = "in_use" /\ PhaseOf(b)' = "used"
    BY <1>6, PhaseCases, PhaseCasesNext DEF Phases
  <2>2. Slots!Finish(b)
    BY <1>1, <2>1, PhaseChangesAt DEF Slots!Finish, Phases
  <2>. QED
    BY <2>2 DEF Slots!Next
<1>7. CASE booking[b] \in {"held", "payment_pending"} /\ booking'[b] \in {"held", "payment_pending"}
  <2>1. PhaseOf(b)' = PhaseOf(b)
    BY <1>7, PhaseCases, PhaseCasesNext
  <2>. QED
    BY <1>2, <2>1
<1>8. CASE booking'[b] = booking[b]
  BY <1>2, <1>8, SamePhase
<1>. QED
  BY <1>3, <1>4, <1>5, <1>6, <1>7, <1>8
  DEF Moves, Pays, Answers, Cancels, Refunds, Charges

\* The locks alone keep the promise about slots, whatever slots overlap and
\* however many workers there are: every commit grants a free slot, or takes a
\* granted one a step further, and nothing else touches one.
\* (create_booking_hold locks the charge point before it checks and inserts)
THEOREM LocksReserveSlots == Spec => ReservesSlots
<1>1. Init => Slots!Init
  BY PhaseCases DEF Init, Slots!Init, Phases
<1>2. ASSUME LocksInv, [Next]_vars
      PROVE  [Slots!Next]_Phases
  <2>1. ASSUME NEW w \in Workers, Step(w)
        PROVE  [Slots!Next]_Phases
    <3>1. TypeOK /\ WorkerInv(w) /\ \A c \in Bookings : RowsInv(c)
      BY <1>2 DEF LocksInv
    <3>2. CASE CommitExpiry(w)
      <4>1. Slots!Release(Expires(w)) /\ Expires(w) \in SUBSET Bookings
        BY <3>2, ExpiriesRelease DEF Expires, Locked
      <4>. QED
        BY <4>1 DEF Slots!Next
    <3>3. CASE CommitHold(w)
      <4>1. /\ subject[w] \in Bookings /\ Expires(w) \in SUBSET Bookings
            /\ Slots!Reserve(subject[w], Expires(w))
        BY <3>1, <3>3, HoldsReserve DEF Expires, Locked
      <4>. QED
        BY <4>1 DEF Slots!Next
    <3>4. CASE CommitWrites(w)
      <4>1. subject[w] \in Bookings /\ Writes(w, subject[w])
        BY <3>1, <3>4, SubjectIsBooking DEF CommitWrites, WorkerInv
      <4>2. Moves(w, subject[w]) /\ WritesOnly(subject[w])
        BY <3>1, <4>1, WritesMove
      <4>3. \A c \in Bookings \ {subject[w]} : Same(c)
        BY <3>1, <4>1, <4>2, TypesOfData, WritesOnlyThere
      <4>. QED
        BY <4>1, <4>2, <4>3, WritesUseSlots
    <3>5. CASE GiveUp(w) \/ Advances(w)
      <4>1. booking' = booking
        BY <3>1, <3>5, AdvancesKeep DEF GiveUp, dataVars
      <4>. QED
        BY <4>1, SamePhases
    <3>. QED
      BY <2>1, <3>2, <3>3, <3>4, <3>5, StepsAreTwofold DEF Ends
  <2>2. CASE (\E b \in Bookings : RunOut(b)) \/ UNCHANGED vars
    <3>1. booking' = booking
      BY <2>2 DEF RunOut, vars, dataVars
    <3>. QED
      BY <3>1, SamePhases
  <2>. QED
    BY <1>2, <2>1, <2>2 DEF Next
<1>3. Spec => []LocksInv
  BY LocksInvAlways
<1>. QED
  BY <1>1, <1>2, <1>3, PTL DEF Spec, ReservesSlots, Slots!Spec, Phases

-----------------------------------------------------------------------------
(* The ledger: a commit moves a booking and its money together.              *)

Stages == [b \in Bookings |-> StageOf(b)]
Moneys == [b \in Bookings |-> MoneyOf(b)]

StageIs(k, s) ==
    /\ k = "absent" => s = "none"
    /\ k = "payment_pending" => s = "waiting"
    /\ k = "active" => s = "in_use"
    /\ k = "completed" => s = "used"
    /\ k \in {"held", "confirmed", "cancelled", "expired"} => s = k

MoneyIs(p, r, m) ==
    /\ p = "none" => m = "none"
    /\ p \in Open => m = "asked"
    /\ p \in {"failed", "no_order"} => m = "failed"
    /\ p = "refunded" => m = "returned"
    /\ p = "captured" /\ r = "none" => m = "taken"
    /\ p = "captured" /\ r = "failed" => m = "refused"
    /\ p = "captured" /\ r \notin {"none", "failed"} => m = "owed"

LEMMA LedgerCases ==
    ASSUME NEW b \in Bookings
    PROVE  /\ StageIs(booking[b], StageOf(b)) /\ StageIs(booking'[b], StageOf(b)')
           /\ MoneyIs(payment[b], refund[b], MoneyOf(b))
           /\ MoneyIs(payment'[b], refund'[b], MoneyOf(b)')
<1>1. StageIs(booking[b], StageOf(b)) /\ StageIs(booking'[b], StageOf(b)')
  BY DEF StageIs, StageOf
<1>2. MoneyIs(payment[b], refund[b], MoneyOf(b))
  BY DEF MoneyIs, MoneyOf, Open
<1>3. MoneyIs(payment'[b], refund'[b], MoneyOf(b)')
  BY DEF MoneyIs, MoneyOf, Open
<1>. QED
  BY <1>1, <1>2, <1>3

LEMMA SameBookingSameStage ==
    ASSUME NEW b \in Bookings
    PROVE  /\ booking'[b] = booking[b] => StageOf(b)' = StageOf(b)
           /\ SamePayment(b) /\ SameRefund(b) => MoneyOf(b)' = MoneyOf(b)
BY DEF StageOf, MoneyOf, SamePayment, SameRefund

LEMMA LedgerChangesAt ==
    ASSUME NEW b \in Bookings, \A c \in Bookings \ {b} : Same(c)
    PROVE  /\ Stages' = [Stages EXCEPT ![b] = StageOf(b)']
           /\ Moneys' = [Moneys EXCEPT ![b] = MoneyOf(b)']
           /\ Stages[b] = StageOf(b) /\ Moneys[b] = MoneyOf(b)
           /\ StageOf(b)' = StageOf(b) => Stages' = Stages
           /\ MoneyOf(b)' = MoneyOf(b) => Moneys' = Moneys
<1>1. \A c \in Bookings \ {b} : StageOf(c)' = StageOf(c) /\ MoneyOf(c)' = MoneyOf(c)
  BY SameBookingSameStage DEF Same
<1>. QED
  BY <1>1 DEF Stages, Moneys

LedgerStep == [Ledger!Next]_<<Stages, Moneys>>

LEMMA AnswersKeepLedger ==
    ASSUME NEW w, NEW b \in Bookings, RowsInv(b), Answers(w, b), DataOK,
           \A c \in Bookings \ {b} : Same(c)
    PROVE  LedgerStep
<1> DEFINE p == payment[b]
           pp == payment'[b]
           k == booking[b]
           kk == booking'[b]
<1>1. /\ p \in {"initiated", "order_created", "failed"}
      /\ p = "failed" => k # "payment_pending"
      /\ refund[b] = "none" /\ refund'[b] = "none"
  <2>1. p \in {"initiated", "order_created", "failed"}
    BY DEF Answers, PaymentOps
  <2>2. p = "failed" => k # "payment_pending"
    BY DEF RowsInv, Open
  <2>3. refund[b] = "none"
    BY <2>1 DEF RowsInv
  <2>. QED
    BY <2>1, <2>2, <2>3 DEF Answers, SameRefund
<1>2. /\ Stages' = [Stages EXCEPT ![b] = StageOf(b)'] /\ Stages[b] = StageOf(b)
      /\ Moneys' = [Moneys EXCEPT ![b] = MoneyOf(b)'] /\ Moneys[b] = MoneyOf(b)
      /\ StageOf(b)' = StageOf(b) => Stages' = Stages
      /\ MoneyOf(b)' = MoneyOf(b) => Moneys' = Moneys
  BY LedgerChangesAt
<1>3. /\ StageIs(k, StageOf(b)) /\ StageIs(kk, StageOf(b)')
      /\ MoneyIs(p, "none", MoneyOf(b)) /\ MoneyIs(pp, "none", MoneyOf(b)')
  BY <1>1, LedgerCases
<1>4. MoneyOf(b) = IF p = "failed" THEN "failed" ELSE "asked"
  BY <1>1, <1>3 DEF MoneyIs, Open
<1>5. \/ k # "payment_pending" /\ kk = k /\ pp \in {"failed", "no_order", "captured"}
      \/ k = "payment_pending" /\ kk = "payment_pending" /\ pp = "order_created"
      \/ k = "payment_pending" /\ kk \in {"held", "expired"} /\ pp \in {"failed", "no_order"}
      \/ k = "payment_pending" /\ kk = "confirmed" /\ pp = "captured"
  BY DEF Answers
<1>6. k # "payment_pending" => StageOf(b) # "waiting"
  BY <1>3 DEF StageIs, DataOK, Status, Blocking
<1>7. k = "payment_pending" => StageOf(b) = "waiting"
  BY <1>3 DEF StageIs
<1> HIDE DEF p, pp, k, kk
<1>8. CASE k # "payment_pending" /\ kk = k /\ pp \in {"failed", "no_order"}
  <2>1. MoneyOf(b)' = "failed" /\ StageOf(b)' = StageOf(b)
    BY <1>3, <1>8, SameBookingSameStage DEF MoneyIs, k, kk
  <2>2. CASE p = "failed"
    BY <1>2, <1>4, <2>1, <2>2 DEF LedgerStep
  <2>3. CASE p # "failed"
    <3>1. Ledger!Fail(b)
      BY <1>2, <1>4, <1>6, <1>8, <2>1, <2>3 DEF Ledger!Fail, Ledger!Put, Stages, Moneys
    <3>. QED
      BY <3>1 DEF LedgerStep, Ledger!Next
  <2>. QED
    BY <2>2, <2>3
<1>9. CASE pp = "captured"
  <2>1. MoneyOf(b)' = "taken" /\ MoneyOf(b) \in {"asked", "failed"}
    BY <1>3, <1>4, <1>9 DEF MoneyIs
  <2>2. \/ k # "payment_pending" /\ kk = k
        \/ k = "payment_pending" /\ kk = "confirmed"
    BY <1>5, <1>9
  <2>3. CASE k # "payment_pending" /\ kk = k
    <3>1. StageOf(b)' = StageOf(b)
      BY <2>3, SameBookingSameStage DEF k, kk
    <3>2. Ledger!Take(b)
      BY <1>2, <1>6, <2>1, <2>3, <3>1 DEF Ledger!Take, Ledger!Put, Stages, Moneys
    <3>. QED
      BY <3>2 DEF LedgerStep, Ledger!Next
  <2>4. CASE k = "payment_pending" /\ kk = "confirmed"
    <3>1. StageOf(b)' = "confirmed"
      BY <1>3, <2>4 DEF StageIs
    <3>2. Ledger!Take(b)
      BY <1>2, <1>7, <2>1, <2>4, <3>1 DEF Ledger!Take, Ledger!Put, Ledger!Move, Stages, Moneys
    <3>. QED
      BY <3>2 DEF LedgerStep, Ledger!Next
  <2>. QED
    BY <2>2, <2>3, <2>4
<1>10. CASE k = "payment_pending" /\ kk = "payment_pending" /\ pp = "order_created"
  <2>1. MoneyOf(b)' = "asked" /\ MoneyOf(b) = "asked" /\ StageOf(b)' = StageOf(b)
    BY <1>1, <1>3, <1>4, <1>10 DEF MoneyIs, StageIs, Open
  <2>. QED
    BY <1>2, <2>1 DEF LedgerStep
<1>11. CASE k = "payment_pending" /\ kk \in {"held", "expired"} /\ pp \in {"failed", "no_order"}
  <2>1. MoneyOf(b)' = "failed" /\ MoneyOf(b) = "asked" /\ StageOf(b)' = kk
    BY <1>1, <1>3, <1>4, <1>11 DEF MoneyIs, StageIs
  <2>2. Ledger!Fail(b)
    BY <1>2, <1>7, <1>11, <2>1 DEF Ledger!Fail, Ledger!Put, Ledger!Move, Stages, Moneys
  <2>. QED
    BY <2>2 DEF LedgerStep, Ledger!Next
<1>. QED
  BY <1>5, <1>8, <1>9, <1>10, <1>11

LEMMA RefundsKeepLedger ==
    ASSUME NEW w, NEW b \in Bookings, RowsInv(b), Refunds(w, b), DataOK,
           \A c \in Bookings \ {b} : Same(c)
    PROVE  LedgerStep
<1>1. /\ Moneys' = [Moneys EXCEPT ![b] = MoneyOf(b)'] /\ Moneys[b] = MoneyOf(b)
      /\ Stages' = Stages
      /\ MoneyOf(b)' = MoneyOf(b) => Moneys' = Moneys
  BY LedgerChangesAt, SameBookingSameStage DEF Refunds
<1>2. /\ MoneyIs(payment[b], refund[b], MoneyOf(b))
      /\ MoneyIs(payment'[b], refund'[b], MoneyOf(b)')
  BY LedgerCases
<1>3. /\ refund[b] = "processed" => MoneyOf(b) = "returned"
      /\ refund[b] = "failed" => MoneyOf(b) = "refused"
      /\ refund[b] \in {"requested", "pending"} => MoneyOf(b) = "owed"
      /\ refund[b] \in {"requested", "pending", "failed", "processed"}
  BY <1>2 DEF Refunds, RowsInv, MoneyIs, DataOK, RefundStatus
<1>4. CASE payment'[b] = "refunded"
  <2>1. MoneyOf(b)' = "returned"
    BY <1>2, <1>4 DEF MoneyIs
  <2>2. CASE refund[b] = "processed"
    BY <1>1, <1>3, <2>1, <2>2 DEF LedgerStep
  <2>3. CASE refund[b] # "processed"
    <3>1. Ledger!Return(b)
      BY <1>1, <1>3, <2>1, <2>3 DEF Ledger!Return, Ledger!Put, Stages, Moneys
    <3>. QED
      BY <3>1 DEF LedgerStep, Ledger!Next
  <2>. QED
    BY <2>2, <2>3
<1>5. CASE payment'[b] # "refunded"
  <2>1. /\ refund[b] \in {"requested", "pending", "failed"} /\ payment[b] = "captured"
        /\ payment'[b] = "captured"
        /\ \/ refund'[b] = "failed"
           \/ refund[b] = "requested" /\ refund'[b] = "pending"
    BY <1>3, <1>5 DEF Refunds, RowsInv, SamePayment
  <2>2. CASE refund'[b] = "pending"
    <3>1. MoneyOf(b)' = MoneyOf(b)
      BY <1>2, <1>3, <2>1, <2>2 DEF MoneyIs
    <3>. QED
      BY <1>1, <3>1 DEF LedgerStep
  <2>3. CASE refund'[b] = "failed"
    <3>1. MoneyOf(b)' = "refused"
      BY <1>2, <2>1, <2>3 DEF MoneyIs
    <3>2. CASE refund[b] = "failed"
      BY <1>1, <1>3, <3>1, <3>2 DEF LedgerStep
    <3>3. CASE refund[b] # "failed"
      <4>1. Ledger!Refuse(b)
        BY <1>1, <1>3, <2>1, <3>1, <3>3 DEF Ledger!Refuse, Ledger!Put, Stages, Moneys
      <4>. QED
        BY <4>1 DEF LedgerStep, Ledger!Next
    <3>. QED
      BY <3>2, <3>3
  <2>. QED
    BY <2>1, <2>2, <2>3
<1>. QED
  BY <1>4, <1>5

LEMMA WritesKeepLedger ==
    ASSUME NEW w, NEW b \in Bookings, RowsInv(b), Moves(w, b), DataOK,
           \A c \in Bookings \ {b} : Same(c)
    PROVE  LedgerStep
<1>1. /\ Stages' = [Stages EXCEPT ![b] = StageOf(b)'] /\ Stages[b] = StageOf(b)
      /\ Moneys' = [Moneys EXCEPT ![b] = MoneyOf(b)'] /\ Moneys[b] = MoneyOf(b)
      /\ MoneyOf(b)' = MoneyOf(b) => Moneys' = Moneys
  BY LedgerChangesAt
<1>2. /\ StageIs(booking[b], StageOf(b)) /\ StageIs(booking'[b], StageOf(b)')
      /\ MoneyIs(payment[b], refund[b], MoneyOf(b))
      /\ MoneyIs(payment'[b], refund'[b], MoneyOf(b)')
      /\ SamePayment(b) /\ SameRefund(b) => MoneyOf(b)' = MoneyOf(b)
  BY LedgerCases, SameBookingSameStage
<1>3. CASE Pays(w, b)
  <2>1. /\ StageOf(b) = "held" /\ StageOf(b)' = "waiting"
        /\ MoneyOf(b) = "none" /\ MoneyOf(b)' = "asked"
    BY <1>2, <1>3 DEF Pays, StageIs, MoneyIs, Open
  <2>2. Ledger!Ask(b)
    BY <1>1, <2>1 DEF Ledger!Ask, Ledger!Move, Ledger!Put, Stages, Moneys
  <2>. QED
    BY <2>2 DEF LedgerStep, Ledger!Next
<1>4. CASE Cancels(w, b)
  <2>1. StageOf(b)' = "cancelled"
    BY <1>2, <1>4 DEF Cancels, StageIs
  <2>2. CASE booking[b] \in {"held", "payment_pending"} /\ SameRefund(b)
    <3>1. StageOf(b) \in {"held", "waiting"} /\ Moneys' = Moneys
      BY <1>1, <1>2, <1>4, <2>2 DEF Cancels, StageIs
    <3>2. Ledger!Cancel(b)
      BY <1>1, <2>1, <3>1 DEF Ledger!Cancel, Ledger!Move, Stages, Moneys
    <3>. QED
      BY <3>2 DEF LedgerStep, Ledger!Next
  <2>3. CASE booking[b] = "confirmed" /\ payment[b] = "captured" /\ refund'[b] = "requested"
    <3>1. refund[b] = "none" /\ payment'[b] = "captured"
      BY <1>4, <2>3 DEF RowsInv, Cancels, SamePayment
    <3>2. StageOf(b) = "confirmed" /\ MoneyOf(b) = "taken" /\ MoneyOf(b)' = "owed"
      BY <1>2, <2>3, <3>1 DEF StageIs, MoneyIs
    <3>3. Ledger!CancelPaid(b)
      BY <1>1, <2>1, <3>2 DEF Ledger!CancelPaid, Ledger!Move, Ledger!Put, Stages, Moneys
    <3>. QED
      BY <3>3 DEF LedgerStep, Ledger!Next
  <2>. QED
    BY <1>4, <2>2, <2>3 DEF Cancels
<1>5. CASE Charges(w, b)
  <2>1. Moneys' = Moneys
    BY <1>1, <1>2, <1>5 DEF Charges
  <2>2. CASE booking[b] = "confirmed" /\ booking'[b] = "active"
    <3>1. Ledger!Use(b)
      BY <1>1, <1>2, <2>1, <2>2 DEF StageIs, Ledger!Use, Ledger!Move, Stages, Moneys
    <3>. QED
      BY <3>1 DEF LedgerStep, Ledger!Next
  <2>3. CASE booking[b] = "active" /\ booking'[b] = "completed"
    <3>1. Ledger!Finish(b)
      BY <1>1, <1>2, <2>1, <2>3 DEF StageIs, Ledger!Finish, Ledger!Move, Stages, Moneys
    <3>. QED
      BY <3>1 DEF LedgerStep, Ledger!Next
  <2>. QED
    BY <1>5, <2>2, <2>3 DEF Charges
<1>. QED
  BY <1>3, <1>4, <1>5, AnswersKeepLedger, RefundsKeepLedger DEF Moves

LEMMA SameLedger ==
    ASSUME UNCHANGED <<booking, payment, refund>>
    PROVE  LedgerStep
<1>1. \A b \in Bookings : StageOf(b)' = StageOf(b) /\ MoneyOf(b)' = MoneyOf(b)
  BY SameBookingSameStage DEF SamePayment, SameRefund
<1>. QED
  BY <1>1 DEF LedgerStep, Stages, Moneys

LEMMA ExpiryKeepsLedger ==
    ASSUME NEW w, CommitExpiry(w)
    PROVE  LedgerStep
<1>1. /\ Expires(w) \subseteq Bookings
      /\ \A c \in Expires(w) : booking[c] = "held"
  BY DEF Expires, Locked, Stale
<1>2. \A c \in Bookings : booking'[c] = IF c \in Expires(w) THEN "expired" ELSE booking[c]
  BY DEF CommitExpiry
<1>3. \A c \in Bookings : MoneyOf(c)' = MoneyOf(c)
  BY SameBookingSameStage DEF CommitExpiry, SamePayment, SameRefund
<1>4. \A c \in Expires(w) : Stages[c] = "held" /\ StageOf(c)' = "expired"
  BY <1>1, <1>2, LedgerCases DEF StageIs, Stages
<1>5. \A c \in Bookings \ Expires(w) : StageOf(c)' = Stages[c]
  BY <1>2, SameBookingSameStage DEF Stages
<1>6. /\ Stages' = [c \in Bookings |-> IF c \in Expires(w) THEN "expired" ELSE Stages[c]]
      /\ Moneys' = Moneys
  BY <1>3, <1>4, <1>5 DEF Stages, Moneys
<1>7. Ledger!Lapse(Expires(w))
  BY <1>4, <1>6 DEF Ledger!Lapse, Stages, Moneys
<1>. QED
  BY <1>1, <1>7 DEF LedgerStep, Ledger!Next

LEMMA HoldKeepsLedger ==
    ASSUME TypeOK, NEW w \in Workers, WorkerInv(w), CommitHold(w)
    PROVE  LedgerStep
<1>1. PICK b \in Bookings : b = subject[w] /\ booking[b] = "absent"
  <2>1. doing[w] = "hold" /\ stage[w] = "checked"
    BY DEF CommitHold, WorkerInv, StageInv
  <2>. QED
    BY <2>1 DEF WorkerInv, SubjectInv, KnownInv, Operation, ReadsClock, General
<1>2. /\ Expires(w) \subseteq Bookings
      /\ \A c \in Expires(w) : booking[c] = "held"
  BY DEF Expires, Locked, Stale
<1>3. \A c \in Bookings : booking'[c] = IF c = b THEN "held"
                                       ELSE IF c \in Expires(w) THEN "expired" ELSE booking[c]
  BY <1>1 DEF CommitHold
<1>4. \A c \in Bookings : MoneyOf(c)' = MoneyOf(c)
  BY SameBookingSameStage DEF CommitHold, SamePayment, SameRefund
<1>5. /\ Stages[b] = "none" /\ StageOf(b)' = "held"
      /\ \A c \in Expires(w) : Stages[c] = "held"
      /\ \A c \in Expires(w) \ {b} : StageOf(c)' = "expired"
  BY <1>1, <1>2, <1>3, LedgerCases DEF StageIs, Stages
<1>6. \A c \in Bookings : c # b /\ c \notin Expires(w) => StageOf(c)' = Stages[c]
  BY <1>3, SameBookingSameStage DEF Stages
<1>7. /\ Stages' = [c \in Bookings |-> IF c = b THEN "held"
                                       ELSE IF c \in Expires(w) THEN "expired" ELSE Stages[c]]
      /\ Moneys' = Moneys
  BY <1>4, <1>5, <1>6 DEF Stages, Moneys
<1>8. Ledger!Hold(b, Expires(w))
  BY <1>5, <1>7 DEF Ledger!Hold, Stages, Moneys
<1>. QED
  BY <1>1, <1>2, <1>8 DEF LedgerStep, Ledger!Next

\* However the locks are taken, and whoever waits, fails or gives up, a commit
\* moves a booking and its money together, one step of the ledger at a time.
\* (_apply_payment_event, _prepare_cancellation, _finalize_refund)
THEOREM LocksKeepLedger == Spec => KeepsLedger
<1>1. Init => Ledger!Init
  <2>1. Init => \A b \in Bookings : StageOf(b) = "none" /\ MoneyOf(b) = "none"
    BY LedgerCases DEF Init, StageIs, MoneyIs
  <2>. QED
    BY <2>1 DEF Ledger!Init
<1>2. ASSUME LocksInv, [Next]_vars
      PROVE  LedgerStep
  <2>1. ASSUME NEW w \in Workers, Step(w)
        PROVE  LedgerStep
    <3>1. TypeOK /\ WorkerInv(w) /\ \A c \in Bookings : RowsInv(c)
      BY <1>2 DEF LocksInv
    <3>2. CASE CommitWrites(w)
      <4>1. subject[w] \in Bookings /\ Writes(w, subject[w])
        BY <3>1, <3>2, SubjectIsBooking DEF CommitWrites, WorkerInv
      <4>2. Moves(w, subject[w]) /\ WritesOnly(subject[w])
        BY <3>1, <4>1, WritesMove
      <4>3. DataOK /\ \A c \in Bookings \ {subject[w]} : Same(c)
        BY <3>1, <4>1, <4>2, TypesOfData, WritesOnlyThere
      <4>4. RowsInv(subject[w])
        BY <3>1, <4>1
      <4>. QED
        BY <4>1, <4>2, <4>3, <4>4, WritesKeepLedger
    <3>3. CASE GiveUp(w) \/ Advances(w)
      BY <3>1, <3>3, AdvancesKeep, SameLedger DEF GiveUp, dataVars
    <3>. QED
      BY <2>1, <3>1, <3>2, <3>3, ExpiryKeepsLedger, HoldKeepsLedger, StepsAreTwofold DEF Ends
  <2>2. CASE (\E b \in Bookings : RunOut(b)) \/ UNCHANGED vars
    BY <2>2, SameLedger DEF RunOut, vars, dataVars
  <2>. QED
    BY <1>2, <2>1, <2>2 DEF Next
<1>3. LocksInv /\ [Next]_vars => [Ledger!Next]_<<Stages, Moneys>>
  BY <1>2 DEF LedgerStep
<1>. QED
  BY <1>1, <1>3, LocksInvAlways, PTL DEF Spec, KeepsLedger, Ledger!Spec, Ledger!vars, Stages, Moneys

-----------------------------------------------------------------------------
(* Deadlocks.  A member of a ring has a row, and waits for another one.      *)

Waits(w) == Locking(w) /\ taken[w] < Len(PlanOf(w)) /\ Continues(w)

LEMMA WaitsForRow ==
    ASSUME LocksInv, NEW w \in Workers, NEW u \in WaitsFor(w)
    PROVE  \/ Waits(w) /\ NextRow(w) \in Rows /\ lockedBy[NextRow(w)] = u
           \/ /\ doing[w] \in {"hold", "read_bookings"} /\ ~Locking(w)
              /\ \E b \in Bookings : lockedBy[Row("bookings", b)] = u
<1>1. TypeOK /\ WorkerInv(w)
  BY DEF LocksInv
<1>2. CASE Waits(w)
  <2>1. NextRow(w) \in Rows
    BY <1>1, <1>2, NextRowIsThere DEF Waits, WorkerInv
  <2>2. WaitsFor(w) = Holders({NextRow(w)})
    BY <1>2 DEF Waits, WaitsFor
  <2>3. lockedBy[NextRow(w)] = u
    BY <2>2 DEF Holders
  <2>. QED
    BY <1>2, <2>1, <2>3
<1>3. CASE ~Waits(w)
  <2>1. WaitsFor(w) = Holders({Row("bookings", b) : b \in visits[w]})
    BY <1>3 DEF Waits, WaitsFor
  <2>2. PICK b \in visits[w] : lockedBy[Row("bookings", b)] = u
    BY <2>1 DEF Holders
  <2>3. stage[w] = "updating" /\ doing[w] # "expire_holds"
    BY <1>1, <2>2 DEF WorkerInv, StageInv
  <2>4. doing[w] \in {"hold", "read_bookings"}
    BY <1>1, <2>3 DEF WorkerInv, StageInv
  <2>5. b \in Bookings
    BY <1>1, <2>2 DEF TypeOK
  <2>. QED
    BY <2>2, <2>3, <2>4, <2>5 DEF Locking
<1>. QED
  BY <1>2, <1>3

LEMMA OfARing ==
    ASSUME NEW R \in SUBSET Workers, Ring(R), NEW w \in R
    PROVE  /\ w \in Workers
           /\ \E u \in R : u \in WaitsFor(w)
           /\ \E x \in R : w \in WaitsFor(x)
BY DEF Ring

\* A member of a ring that locks rows has the first of two, and wants the other.
LEMMA LockersOfARing ==
    ASSUME LocksInv, NEW R \in SUBSET Workers, Ring(R), NEW w \in R,
           doing[w] \notin {"hold", "read_bookings"}
    PROVE  /\ Waits(w) /\ taken[w] = 1 /\ doing[w] \in Operation
           /\ doing[w] \notin {"begin_payment", "expire_holds"}
           /\ lockedBy[PlanOf(w)[1]] = w
           /\ NextRow(w) = PlanOf(w)[2]
           /\ \A x \in Rows : lockedBy[x] = w => x = PlanOf(w)[1]
<1>1. TypeOK /\ w \in Workers /\ WorkerInv(w)
  BY DEF LocksInv
<1>2. Waits(w)
  BY <1>1, OfARing, WaitsForRow
<1>3. stage[w] = "locking" /\ doing[w] \in Operation /\ taken[w] < Len(PlanOf(w))
  BY <1>1, <1>2 DEF Waits, Locking, TypeOK
<1>4. PICK x \in R : w \in WaitsFor(x)
  BY OfARing
<1>5. x \in Workers
  OBVIOUS
<1>6. PICK y \in Rows : lockedBy[y] = w
  BY <1>4, <1>5, WaitsForRow, RowsAreThere
<1>7. \A z \in Rows : lockedBy[z] = w => \E i \in 1..taken[w] : z = PlanOf(w)[i]
  BY <1>1, <1>3 DEF WorkerInv, LockInv
<1>8. taken[w] # 0
  <2>1. SUFFICES ASSUME taken[w] = 0
                 PROVE  FALSE
    OBVIOUS
  <2>2. 1..taken[w] = {}
    BY <2>1
  <2>. QED
    BY <1>6, <1>7, <2>2
<1>9. taken[w] = 1 /\ doing[w] \notin {"begin_payment", "expire_holds"}
  <2> DEFINE n == Len(PlanOf(w))
  <2>1. /\ n = IF doing[w] \in {"read_bookings", "expire_holds"} THEN 0
               ELSE IF doing[w] = "begin_payment" THEN 1 ELSE 2
    BY <1>3, PlanLengths DEF PlanOf
  <2>2. taken[w] < n /\ taken[w] \in 0..2 /\ taken[w] # 0
    BY <1>1, <1>3, <1>8 DEF TypeOK
  <2> HIDE DEF n
  <2>. QED
    BY <2>1, <2>2
<1>10. lockedBy[PlanOf(w)[1]] = w
  BY <1>1, <1>3, <1>9, HasItsRows
<1>11. NextRow(w) = PlanOf(w)[2]
  BY <1>9 DEF NextRow
<1>12. \A z \in Rows : lockedBy[z] = w => z = PlanOf(w)[1]
  <2>1. 1..taken[w] = {1}
    BY <1>9
  <2>. QED
    BY <1>7, <2>1
<1>. QED
  BY <1>2, <1>3, <1>9, <1>10, <1>11, <1>12

\* Who wants the payment that is to be answered has not found what it needs.
LEMMA AnswersAreInNoRing ==
    ASSUME LocksInv, NEW R \in SUBSET Workers, Ring(R), NEW w \in R
    PROVE  doing[w] \notin PaymentOps
<1>1. SUFFICES ASSUME doing[w] \in PaymentOps
               PROVE  FALSE
  OBVIOUS
<1> DEFINE b == subject[w]
<1>2. TypeOK /\ w \in Workers /\ WorkerInv(w) /\ KnownInv(w)
  BY DEF LocksInv, WorkerInv
<1>3. /\ Waits(w) /\ taken[w] = 1
      /\ \A x \in Rows : lockedBy[x] = w => x = PlanOf(w)[1]
  BY <1>1, LockersOfARing DEF PaymentOps
<1>4. PlanOf(w)[1] = Row("payments", b)
  <2>1. PlanOf(w) = <<Row("payments", b), Row("bookings", b)>>
    BY <1>1, Plans DEF PlanOf
  <2>. QED
    BY <2>1
<1>5. b \in Bookings
  BY <1>1, <1>2 DEF WorkerInv, SubjectInv, PaymentOps, Operation, ReadsClock, General
<1>6. payment[b] \in {"initiated", "order_created", "failed"}
  <2>1. CASE doing[w] = "failed"
    <3>1. payment[b] \notin {"captured", "refunded"}
      BY <1>3, <2>1 DEF Waits, Continues
    <3>2. payment[b] \notin {"none", "initiated", "no_order"}
      BY <1>2, <2>1 DEF KnownInv
    <3>. QED
      BY <1>2, <1>5, <3>1, <3>2 DEF TypeOK, Open
  <2>2. CASE doing[w] \in {"finalize_order", "compensate", "captured"}
    BY <1>2, <2>2 DEF KnownInv
  <2>. QED
    BY <1>1, <2>1, <2>2 DEF PaymentOps
<1>7. PICK x \in R : w \in WaitsFor(x)
  BY OfARing
<1>8. x \in Workers /\ WorkerInv(x) /\ KnownInv(x)
  BY DEF LocksInv, WorkerInv
<1>9. ASSUME NEW c \in Bookings
      PROVE  lockedBy[Row("bookings", c)] # w
  BY <1>3, <1>4, RowsAreThere, RowsDiffer
<1>10. Waits(x) /\ NextRow(x) \in Rows /\ lockedBy[NextRow(x)] = w
  BY <1>7, <1>8, <1>9, WaitsForRow
<1>11. NextRow(x) = Row("payments", b)
  BY <1>3, <1>4, <1>10
<1>12. doing[x] \notin {"hold", "read_bookings"}
  <2>1. CASE doing[x] = "read_bookings"
    BY <1>2, <1>10, <2>1, PlanLengths DEF Waits, PlanOf, TypeOK, Operation, ReadsClock
  <2>2. CASE doing[x] = "hold"
    <3>1. PlanOf(x) = <<Point, Station>>
      BY <2>2, Plans DEF PlanOf
    <3>2. taken[x] \in {0, 1}
      BY <1>2, <1>8, <1>10, <3>1 DEF Waits, TypeOK
    <3>3. NextRow(x) \in {Point, Station}
      BY <3>1, <3>2 DEF NextRow
    <3>. QED
      BY <1>11, <3>3, RowsDiffer
  <2>. QED
    BY <2>1, <2>2
<1>13. /\ NextRow(x) = PlanOf(x)[2] /\ taken[x] = 1 /\ doing[x] \in Operation
       /\ doing[x] \notin {"begin_payment", "expire_holds"}
  BY <1>12, LockersOfARing
<1>14. ASSUME NEW s, subject[x] = s
       PROVE  /\ doing[x] # "edit_point"
              /\ doing[x] \notin PaymentOps
              /\ doing[x] \notin RefundEvents
              /\ doing[x] \notin SessionOps
              /\ doing[x] \in {"cancel"} \union RefundAnswers => s = b
  <2>1. doing[x] # "edit_point"
    BY <1>11, <1>13, Plans, RowsDiffer DEF PlanOf
  <2>2. doing[x] \notin PaymentOps
    <3>1. doing[x] \in PaymentOps => PlanOf(x) = <<Row("payments", s), Row("bookings", s)>>
      BY <1>14, Plans DEF PlanOf
    <3>. QED
      BY <1>11, <1>13, <3>1, RowsDiffer
  <2>3. doing[x] \notin RefundEvents
    <3>1. doing[x] \in RefundEvents => PlanOf(x) = <<Row("payments", s), Row("refunds", s)>>
      BY <1>14, Plans DEF PlanOf
    <3>. QED
      BY <1>11, <1>13, <3>1, RowsDiffer
  <2>4. doing[x] \notin SessionOps
    <3>1. doing[x] \in SessionOps => PlanOf(x) = <<Row("bookings", s), Point>>
      BY <1>14, Plans DEF PlanOf
    <3>. QED
      BY <1>11, <1>13, <3>1, RowsDiffer
  <2>5. doing[x] = "cancel" => s = b
    <3>1. doing[x] = "cancel" => PlanOf(x) = <<Row("bookings", s), Row("payments", s)>>
      BY <1>14, Plans DEF PlanOf
    <3>. QED
      BY <1>11, <1>13, <3>1, RowsDiffer
  <2>6. doing[x] \in RefundAnswers => s = b
    <3>1. doing[x] \in RefundAnswers => PlanOf(x) = <<Row("refunds", s), Row("payments", s)>>
      BY <1>14, Plans DEF PlanOf
    <3>. QED
      BY <1>11, <1>13, <3>1, RowsDiffer
  <2>. QED
    BY <2>1, <2>2, <2>3, <2>4, <2>5, <2>6
<1>15. subject[x] = b /\ doing[x] \in {"cancel"} \union RefundAnswers
  BY <1>12, <1>13, <1>14, Operations
<1>16. CASE doing[x] = "cancel"
  <2>1. payment[b] = "captured"
    BY <1>10, <1>13, <1>15, <1>16 DEF Waits, Continues
  <2>. QED
    BY <1>6, <2>1
<1>17. CASE doing[x] \in RefundAnswers
  <2>1. refund[b] # "none"
    BY <1>8, <1>15, <1>17 DEF KnownInv
  <2>2. payment[b] \in {"captured", "refunded"}
    BY <1>5, <2>1 DEF LocksInv, RowsInv
  <2>. QED
    BY <1>6, <2>2
<1>. QED
  BY <1>15, <1>16, <1>17

\* A cancellation that wants a payment has found its booking confirmed, so that
\* there is no refund yet.
LEMMA CancellationsAreInNoRing ==
    ASSUME LocksInv, NEW R \in SUBSET Workers, Ring(R), NEW w \in R
    PROVE  doing[w] # "cancel"
<1>1. SUFFICES ASSUME doing[w] = "cancel"
               PROVE  FALSE
  OBVIOUS
<1> DEFINE b == subject[w]
<1>2. TypeOK /\ w \in Workers /\ WorkerInv(w)
  BY DEF LocksInv
<1>3. Waits(w) /\ taken[w] = 1 /\ NextRow(w) = PlanOf(w)[2]
  BY <1>1, LockersOfARing
<1>4. NextRow(w) = Row("payments", b)
  <2>1. PlanOf(w) = <<Row("bookings", b), Row("payments", b)>>
    BY <1>1, Plans DEF PlanOf
  <2>. QED
    BY <1>3, <2>1
<1>5. b \in Bookings /\ booking[b] = "confirmed"
  BY <1>1, <1>2, <1>3 DEF Waits, Continues, WorkerInv, SubjectInv, Operation, ReadsClock, General
<1>6. PICK u \in R : u \in WaitsFor(w)
  BY OfARing
<1>7. lockedBy[Row("payments", b)] = u
  BY <1>1, <1>2, <1>4, <1>6, WaitsForRow
<1>8. u \in Workers /\ WorkerInv(u) /\ KnownInv(u)
  BY DEF LocksInv, WorkerInv
<1>9. doing[u] \notin {"hold", "read_bookings"}
  <2>1. SUFFICES ASSUME doing[u] \in {"hold", "read_bookings"}
                 PROVE  FALSE
    OBVIOUS
  <2>2. doing[u] \in Operation
    BY <2>1 DEF Operation, ReadsClock
  <2>3. PICK i \in 1..taken[u] : Row("payments", b) = PlanOf(u)[i]
    BY <1>5, <1>7, <1>8, RowsAreThere, RowsDiffer DEF WorkerInv, LockInv
  <2>4. doing[u] = "hold" => PlanOf(u) = <<Point, Station>>
    BY Plans DEF PlanOf
  <2>5. doing[u] = "read_bookings" => Len(PlanOf(u)) = 0
    BY <2>2, PlanLengths DEF PlanOf
  <2>6. taken[u] \in 0..2 /\ taken[u] <= Len(PlanOf(u))
    BY <1>2, <1>8, <2>2, HasItsRows
  <2>7. doing[u] = "hold"
    BY <2>1, <2>3, <2>5, <2>6
  <2>8. i \in {1, 2}
    BY <2>3, <2>6
  <2>. QED
    BY <2>3, <2>4, <2>7, <2>8, RowsDiffer
<1>10. /\ Row("payments", b) = PlanOf(u)[1] /\ doing[u] \in Operation
       /\ doing[u] \notin {"begin_payment", "expire_holds"}
  BY <1>5, <1>7, <1>9, LockersOfARing, RowsAreThere
<1>11. doing[u] \notin PaymentOps
  BY AnswersAreInNoRing
<1>12. ASSUME NEW s, subject[u] = s
       PROVE  /\ doing[u] \notin {"edit_point", "cancel"}
              /\ doing[u] \notin RefundAnswers
              /\ doing[u] \notin SessionOps
              /\ doing[u] \in RefundEvents => s = b
  <2>1. doing[u] # "edit_point"
    BY <1>10, Plans, RowsDiffer DEF PlanOf
  <2>2. doing[u] # "cancel"
    BY <1>10, Plans, RowsDiffer DEF PlanOf
  <2>3. doing[u] \notin RefundAnswers
    <3>1. doing[u] \in RefundAnswers => PlanOf(u) = <<Row("refunds", s), Row("payments", s)>>
      BY <1>12, Plans DEF PlanOf
    <3>. QED
      BY <1>10, <3>1, RowsDiffer
  <2>4. doing[u] \notin SessionOps
    <3>1. doing[u] \in SessionOps => PlanOf(u) = <<Row("bookings", s), Point>>
      BY <1>12, Plans DEF PlanOf
    <3>. QED
      BY <1>10, <3>1, RowsDiffer
  <2>5. doing[u] \in RefundEvents => s = b
    <3>1. doing[u] \in RefundEvents => PlanOf(u) = <<Row("payments", s), Row("refunds", s)>>
      BY <1>12, Plans DEF PlanOf
    <3>. QED
      BY <1>10, <3>1, RowsDiffer
  <2>. QED
    BY <2>1, <2>2, <2>3, <2>4, <2>5
<1>13. subject[u] = b /\ doing[u] \in RefundEvents
  BY <1>9, <1>10, <1>11, <1>12, Operations
<1>14. refund[b] # "none"
  BY <1>8, <1>13 DEF KnownInv
<1>. QED
  BY <1>5, <1>14 DEF LocksInv, RowsInv

\* Payments, cancellations and the expiry job are never part of a deadlock: they
\* take their two rows in opposite orders, but what makes one of them go on to
\* its second row rules out that another one has it and waits.
\* (_apply_captured_payment against _prepare_cancellation)
THEOREM PaymentsNeverDeadlock == Spec => []PaymentsAreNotDeadlocked
<1>1. LocksInv => PaymentsAreNotDeadlocked
  <2>1. SUFFICES ASSUME LocksInv, NEW w \in Deadlocked
                 PROVE  doing[w] \in {"hold", "read_bookings", "edit_point", "start_session",
                                      "complete_session", "refund_processed", "refund_failed",
                                      "finalize_refund", "reconcile"}
    BY DEF PaymentsAreNotDeadlocked
  <2>2. PICK R \in SUBSET Workers : w \in R /\ Ring(R)
    BY DEF Deadlocked
  <2>3. CASE doing[w] \notin {"hold", "read_bookings"}
    <3>1. doing[w] \in Operation /\ doing[w] \notin {"begin_payment", "expire_holds"}
      BY <2>1, <2>2, <2>3, LockersOfARing
    <3>2. doing[w] \notin PaymentOps /\ doing[w] # "cancel"
      BY <2>1, <2>2, AnswersAreInNoRing, CancellationsAreInNoRing
    <3>. QED
      BY <3>1, <3>2, Operations DEF PaymentOps, RefundEvents, RefundAnswers, SessionOps
  <2>. QED
    BY <2>3
<1>. QED
  BY <1>1, LocksInvAlways, PTL

-----------------------------------------------------------------------------
(* What follows from the ledger alone.                                     *)

Books == INSTANCE PaymentLedger_proofs WITH
    Attempts <- Bookings,
    BookingFor <- [b \in Bookings |-> b],
    stage <- [b \in Bookings |-> StageOf(b)],
    money <- [b \in Bookings |-> MoneyOf(b)]

\* With its rows locked one at a time, a booking still is confirmed and used
\* against money that came in and has no refund row, and has a refund only when
\* it was cancelled.  (_apply_captured_payment, _prepare_cancellation)
THEOREM BooksAgreeUnderLocks == Spec => []Ledger!BooksAgree
<1>1. Books!Spec => []Books!BooksAgree
  BY Books!LedgersAgree DEF Books!Assigned
<1>2. Ledger!Init => Books!Init
  BY DEF Ledger!Init, Books!Init
<1>3. [Ledger!Next]_Ledger!vars => [Books!Next]_Books!vars
  BY DEF Ledger!Hold, Ledger!Lapse, Ledger!Ask, Ledger!Fail, Ledger!Take,
         Ledger!Cancel, Ledger!CancelPaid, Ledger!Refuse, Ledger!Return,
         Ledger!Use, Ledger!Finish, Ledger!Move, Ledger!Put, Ledger!vars,
         Ledger!Next, Books!Hold, Books!Lapse, Books!Ask, Books!Fail,
         Books!Take, Books!Cancel, Books!CancelPaid, Books!Refuse,
         Books!Return, Books!Use, Books!Finish, Books!Move, Books!Put,
         Books!vars, Books!Next
<1>4. Books!BooksAgree => Ledger!BooksAgree
  BY DEF Ledger!BooksAgree, Books!BooksAgree, Ledger!Asked, Books!Asked
<1>. QED
  BY <1>1, <1>2, <1>3, <1>4, LocksKeepLedger, PTL DEF KeepsLedger, Ledger!Spec, Books!Spec

=============================================================================
