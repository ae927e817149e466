---------------------------- MODULE PaymentLedger ---------------------------
(***************************************************************************)
(* What ChargeMate promises about a booking and the money paid for it,     *)
(* whatever becomes of webhooks, retries, jobs and locks: at every moment  *)
(* they tell one story, and each step of it is one of those below.  The    *)
(* rows of bookings, payments and refunds are never seen between two of    *)
(* them.                                                                   *)
(***************************************************************************)
CONSTANTS
    Bookings,
    Attempts,       \* each to pay for one booking
    BookingFor

VARIABLES
    stage,      \* of a booking
    money       \* of an attempt

vars == <<stage, money>>

Stage == {"none", "held", "waiting", "confirmed", "in_use", "used", "cancelled", "expired"}
Money == {"none", "asked", "failed", "taken", "owed", "refused", "returned"}

Init ==
    /\ stage = [b \in Bookings |-> "none"]
    /\ money = [a \in Attempts |-> "none"]

Move(b, to) == stage' = [stage EXCEPT ![b] = to]
Put(a, to) == money' = [money EXCEPT ![a] = to]

\* A booking begins; holds whose time is over end with it.
Hold(b, S) ==
    /\ stage[b] = "none"
    /\ \A c \in S : stage[c] = "held"
    /\ stage' = [c \in Bookings |-> IF c = b THEN "held"
                                    ELSE IF c \in S THEN "expired" ELSE stage[c]]
    /\ UNCHANGED money

Lapse(S) ==
    /\ \A c \in S : stage[c] = "held"
    /\ stage' = [c \in Bookings |-> IF c \in S THEN "expired" ELSE stage[c]]
    /\ UNCHANGED money

\* A booking waits for one attempt to bring in money.
Ask(a) ==
    /\ stage[BookingFor[a]] = "held"
    /\ money[a] = "none"
    /\ Move(BookingFor[a], "waiting")
    /\ Put(a, "asked")

\* An attempt that was asked fails; the booking, if it waits, need not any more.
Fail(a) ==
    /\ money[a] = "asked"
    /\ Put(a, "failed")
    /\ IF stage[BookingFor[a]] = "waiting"
         THEN \E to \in {"held", "expired"} : Move(BookingFor[a], to)
         ELSE UNCHANGED stage

\* Money comes in, also for an attempt that had failed, or too late.
Take(a) ==
    /\ money[a] \in {"asked", "failed"}
    /\ Put(a, "taken")
    /\ IF stage[BookingFor[a]] = "waiting" THEN Move(BookingFor[a], "confirmed")
                                           ELSE UNCHANGED stage

Cancel(b) ==
    /\ stage[b] \in {"held", "waiting"}
    /\ Move(b, "cancelled")
    /\ UNCHANGED money

\* Whoever cancels a booking that was paid for is owed the money.
CancelPaid(a) ==
    /\ stage[BookingFor[a]] = "confirmed"
    /\ money[a] = "taken"
    /\ Move(BookingFor[a], "cancelled")
    /\ Put(a, "owed")

\* The refund does not work, as far as is known.
Refuse(a) ==
    /\ money[a] = "owed"
    /\ Put(a, "refused")
    /\ UNCHANGED stage

Return(a) ==
    /\ money[a] \in {"owed", "refused"}
    /\ Put(a, "returned")
    /\ UNCHANGED stage

Use(b) ==
    /\ stage[b] = "confirmed"
    /\ Move(b, "in_use")
    /\ UNCHANGED money

Finish(b) ==
    /\ stage[b] = "in_use"
    /\ Move(b, "used")
    /\ UNCHANGED money

Next ==
    \/ \E b \in Bookings, S \in SUBSET Bookings : Hold(b, S)
    \/ \E S \in SUBSET Bookings : Lapse(S)
    \/ \E b \in Bookings : Cancel(b) \/ Use(b) \/ Finish(b)
    \/ \E a \in Attempts :
          Ask(a) \/ Fail(a) \/ Take(a) \/ CancelPaid(a) \/ Refuse(a) \/ Return(a)

Spec == Init /\ [][Next]_vars

-----------------------------------------------------------------------------
(* What the books say, then, at every moment. *)

Asked(b) == {a \in Attempts : BookingFor[a] = b /\ money[a] = "asked"}

\* A booking waits exactly while one attempt is asked for money, is kept and
\* used against money that came in and that nobody is owed, and no money is
\* given back but for a booking that was cancelled.  (the statuses written by
\* _begin_payment_attempt, _apply_payment_event, _prepare_cancellation)
BooksAgree ==
    /\ \A b \in Bookings :
          /\ \A x, y \in Asked(b) : x = y
          /\ stage[b] = "waiting" => Asked(b) # {}
          /\ stage[b] \in {"none", "held", "expired"} => Asked(b) = {}
          /\ stage[b] \in {"confirmed", "in_use", "used"} =>
                \E a \in Attempts : BookingFor[a] = b /\ money[a] = "taken"
    /\ \A a \in Attempts :
          money[a] \in {"owed", "refused", "returned"} => stage[BookingFor[a]] = "cancelled"

=============================================================================
