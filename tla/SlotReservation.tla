--------------------------- MODULE SlotReservation --------------------------
(***************************************************************************)
(* What ChargeMate promises about the slots of a charge point, whatever    *)
(* becomes of payments, refunds, retries and clocks: a slot is granted to  *)
(* one booking at a time, a grant is used only after it was paid for, and  *)
(* a slot that was given back is not used.                                 *)
(***************************************************************************)
CONSTANTS
    Bookings,
    Conflicts       \* pairs of bookings that want the same charge point at once

VARIABLE phase

Phase == {"free", "reserved", "paid", "in_use", "used", "released"}

Granted(b) == phase[b] \in {"reserved", "paid", "in_use"}

Init == phase = [b \in Bookings |-> "free"]

\* A slot is granted; grants that ran out may be taken back to make room.
Reserve(b, S) ==
    /\ phase[b] = "free"
    /\ \A c \in S : phase[c] = "reserved"
    /\ \A c \in Bookings \ S : Granted(c) => <<b, c>> \notin Conflicts
    /\ phase' = [c \in Bookings |-> IF c = b THEN "reserved"
                                    ELSE IF c \in S THEN "released"
                                    ELSE phase[c]]

Pay(b) ==
    /\ phase[b] = "reserved"
    /\ phase' = [phase EXCEPT ![b] = "paid"]

Use(b) ==
    /\ phase[b] = "paid"
    /\ phase' = [phase EXCEPT ![b] = "in_use"]

Finish(b) ==
    /\ phase[b] = "in_use"
    /\ phase' = [phase EXCEPT ![b] = "used"]

\* Slots are given back: by the customer, or because their time to pay is up.
Release(S) ==
    /\ \A c \in S : phase[c] \in {"reserved", "paid"}
    /\ phase' = [c \in Bookings |-> IF c \in S THEN "released" ELSE phase[c]]

Next ==
    \/ \E b \in Bookings, S \in SUBSET Bookings : Reserve(b, S)
    \/ \E b \in Bookings : Pay(b) \/ Use(b) \/ Finish(b)
    \/ \E S \in SUBSET Bookings : Release(S)

Spec == Init /\ [][Next]_phase

=============================================================================
