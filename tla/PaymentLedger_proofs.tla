------------------------ MODULE PaymentLedger_proofs ------------------------
(***************************************************************************)
(* What follows from the ledger alone, and so for everything that keeps    *)
(* it: for the handlers of ChargeMate and for the locks of RowLocks.       *)
(***************************************************************************)
EXTENDS PaymentLedger, TLAPS

\* Every attempt is to pay for a booking.
Assigned == BookingFor \in [Attempts -> Bookings]

Typed ==
    /\ stage \in [Bookings -> Stage]
    /\ money \in [Attempts -> Money]

OneAsked(b) ==
    /\ \A x, y \in Asked(b) : x = y
    /\ stage[b] = "waiting" => Asked(b) # {}
    /\ stage[b] \in {"none", "held", "expired"} => Asked(b) = {}

PaidFor(b) == \E a \in Attempts : BookingFor[a] = b /\ money[a] = "taken"

Kept(b) == stage[b] \in {"confirmed", "in_use", "used"}

GivenBack(a) == money[a] \in {"owed", "refused", "returned"}

Books ==
    /\ Typed
    /\ \A b \in Bookings : OneAsked(b)
    /\ \A b \in Bookings : Kept(b) => PaidFor(b)
    /\ \A a \in Attempts : GivenBack(a) => stage[BookingFor[a]] = "cancelled"

LEMMA StepsKeepTypes ==
    ASSUME Assigned, Typed, [Next]_vars
    PROVE  Typed'
<1>. USE DEF Assigned, Typed, Stage, Money, Move, Put
<1>1. ASSUME NEW b \in Bookings, NEW S \in SUBSET Bookings, Hold(b, S)
      PROVE  Typed'
  BY <1>1 DEF Hold
<1>2. ASSUME NEW b \in Bookings, Cancel(b) \/ Use(b) \/ Finish(b)
      PROVE  Typed'
  BY <1>2 DEF Cancel, Use, Finish
<1>3. ASSUME NEW a \in Attempts,
             Ask(a) \/ Fail(a) \/ Take(a) \/ CancelPaid(a) \/ Refuse(a) \/ Return(a)
      PROVE  Typed'
  BY <1>3 DEF Ask, Fail, Take, CancelPaid, Refuse, Return
<1>4. ASSUME NEW S \in SUBSET Bookings, Lapse(S)
      PROVE  Typed'
  BY <1>4 DEF Lapse
<1>. QED
  BY <1>1, <1>2, <1>3, <1>4 DEF Next, vars

LEMMA StepsKeepOneAsked ==
    ASSUME Assigned, Typed, [Next]_vars, NEW b \in Bookings, OneAsked(b)
    PROVE  OneAsked(b)'
<1>. USE DEF Assigned, Typed, Stage, Money, Move, Put, OneAsked, Asked
<1>1. ASSUME NEW c \in Bookings, NEW S \in SUBSET Bookings, Hold(c, S)
      PROVE  OneAsked(b)'
  BY <1>1 DEF Hold
<1>2. ASSUME NEW S \in SUBSET Bookings, Lapse(S)
      PROVE  OneAsked(b)'
  BY <1>2 DEF Lapse
<1>3. ASSUME NEW c \in Bookings, Cancel(c) \/ Use(c) \/ Finish(c)
      PROVE  OneAsked(b)'
  BY <1>3 DEF Cancel, Use, Finish
<1>4. ASSUME NEW a \in Attempts, Ask(a)
      PROVE  OneAsked(b)'
  BY <1>4 DEF Ask
<1>5. ASSUME NEW a \in Attempts, Fail(a)
      PROVE  OneAsked(b)'
  BY <1>5 DEF Fail
<1>6. ASSUME NEW a \in Attempts, Take(a)
      PROVE  OneAsked(b)'
  BY <1>6 DEF Take
<1>7. ASSUME NEW a \in Attempts, CancelPaid(a) \/ Refuse(a) \/ Return(a)
      PROVE  OneAsked(b)'
  BY <1>7 DEF CancelPaid, Refuse, Return
<1>. QED
  BY <1>1, <1>2, <1>3, <1>4, <1>5, <1>6, <1>7 DEF Next, vars

LEMMA StepsKeepPaid ==
    ASSUME Assigned, Typed, [Next]_vars, NEW b \in Bookings, Kept(b) => PaidFor(b)
    PROVE  (Kept(b) => PaidFor(b))'
<1>. USE DEF Assigned, Typed, Stage, Money, Move, Put, Kept, PaidFor
<1>1. ASSUME NEW c \in Bookings, NEW S \in SUBSET Bookings, Hold(c, S)
      PROVE  (Kept(b) => PaidFor(b))'
  BY <1>1 DEF Hold
<1>2. ASSUME NEW S \in SUBSET Bookings, Lapse(S)
      PROVE  (Kept(b) => PaidFor(b))'
  BY <1>2 DEF Lapse
<1>3. ASSUME NEW c \in Bookings, Cancel(c) \/ Use(c) \/ Finish(c)
      PROVE  (Kept(b) => PaidFor(b))'
  BY <1>3 DEF Cancel, Use, Finish
<1>4. ASSUME NEW a \in Attempts, Ask(a) \/ Fail(a)
      PROVE  (Kept(b) => PaidFor(b))'
  BY <1>4 DEF Ask, Fail
<1>5. ASSUME NEW a \in Attempts, Take(a)
      PROVE  (Kept(b) => PaidFor(b))'
  BY <1>5 DEF Take
<1>6. ASSUME NEW a \in Attempts, CancelPaid(a)
      PROVE  (Kept(b) => PaidFor(b))'
  BY <1>6 DEF CancelPaid
<1>7. ASSUME NEW a \in Attempts, Refuse(a) \/ Return(a)
      PROVE  (Kept(b) => PaidFor(b))'
  BY <1>7 DEF Refuse, Return
<1>. QED
  BY <1>1, <1>2, <1>3, <1>4, <1>5, <1>6, <1>7 DEF Next, vars

LEMMA StepsGiveBackOnlyCancelled ==
    ASSUME Assigned, Typed, [Next]_vars, NEW a \in Attempts,
           GivenBack(a) => stage[BookingFor[a]] = "cancelled"
    PROVE  (GivenBack(a) => stage[BookingFor[a]] = "cancelled")'
<1>. USE DEF Assigned, Typed, Stage, Money, Move, Put, GivenBack
<1>1. ASSUME NEW c \in Bookings, NEW S \in SUBSET Bookings, Hold(c, S)
      PROVE  (GivenBack(a) => stage[BookingFor[a]] = "cancelled")'
  BY <1>1 DEF Hold
<1>2. ASSUME NEW S \in SUBSET Bookings, Lapse(S)
      PROVE  (GivenBack(a) => stage[BookingFor[a]] = "cancelled")'
  BY <1>2 DEF Lapse
<1>3. ASSUME NEW c \in Bookings, Cancel(c) \/ Use(c) \/ Finish(c)
      PROVE  (GivenBack(a) => stage[BookingFor[a]] = "cancelled")'
  BY <1>3 DEF Cancel, Use, Finish
<1>4. ASSUME NEW d \in Attempts, Ask(d) \/ Fail(d) \/ Take(d)
      PROVE  (GivenBack(a) => stage[BookingFor[a]] = "cancelled")'
  BY <1>4 DEF Ask, Fail, Take
<1>5. ASSUME NEW d \in Attempts, CancelPaid(d) \/ Refuse(d) \/ Return(d)
      PROVE  (GivenBack(a) => stage[BookingFor[a]] = "cancelled")'
  BY <1>5 DEF CancelPaid, Refuse, Return
<1>. QED
  BY <1>1, <1>2, <1>3, <1>4, <1>5 DEF Next, vars

\* Whoever keeps the ledger keeps the books in order: a booking waits exactly
\* while one attempt is asked for money, is kept and used against money that
\* came in, and only a cancelled booking's money is given back.
THEOREM LedgersAgree ==
    ASSUME Assigned
    PROVE  Spec => []BooksAgree
<1>1. Init => Books
  BY DEF Init, Books, Typed, Stage, Money, OneAsked, Asked, Kept, GivenBack, Assigned
<1>2. ASSUME Books, [Next]_vars
      PROVE  Books'
  <2>1. Typed /\ Typed'
    BY <1>2, StepsKeepTypes DEF Books
  <2>2. \A b \in Bookings : OneAsked(b)'
    BY <1>2, <2>1, StepsKeepOneAsked DEF Books
  <2>3. \A b \in Bookings : (Kept(b) => PaidFor(b))'
    BY <1>2, <2>1, StepsKeepPaid DEF Books
  <2>4. \A a \in Attempts : (GivenBack(a) => stage[BookingFor[a]] = "cancelled")'
    BY <1>2, <2>1, StepsGiveBackOnlyCancelled DEF Books
  <2>. QED
    BY <2>1, <2>2, <2>3, <2>4 DEF Books
<1>3. Books => BooksAgree
  BY DEF Books, BooksAgree, OneAsked, Kept, PaidFor, GivenBack
<1>4. Books /\ [Next]_vars => Books'
  BY <1>2
<1>. QED
  BY <1>1, <1>3, <1>4, PTL DEF Spec

=============================================================================
