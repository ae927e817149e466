---------------------------- MODULE MCChargeMate ----------------------------
(***************************************************************************)
(* Instances of ChargeMate for TLC.  Each group of definitions gives the   *)
(* requests of one scenario: who asks for which slot, which attempt pays   *)
(* for which booking, which charge is made on which order.                 *)
(***************************************************************************)
EXTENDS ChargeMate

CONSTANTS u1, u2, s1, p1, p2, b1, b2, b3, a1, a2, c1, c2, c3, r1, r2, r3

MCSiteOf == [p \in Points |-> s1]
MCOwner == [b \in Bookings |-> IF b = b1 THEN u1 ELSE u2]
MCPoint == [b \in Bookings |-> p1]

\* One booking of slot [3, 5).
OneStart == [b \in Bookings |-> 3]
OneEnd == [b \in Bookings |-> 5]

\* b1 lies within b2, and b3 follows both without a gap.
ThreeStarts == [b \in Bookings |-> CASE b = b1 -> 2 [] b = b2 -> 1 [] b = b3 -> 3]
ThreeEnds == [b \in Bookings |-> IF b = b3 THEN 4 ELSE 3]

\* Two attempts pay for b1, one charge each.
BothForB1 == [a \in Attempts |-> b1]
ChargePerAttempt == [c \in Charges |-> IF c = c1 THEN a1 ELSE a2]

\* b1 and b3 may be paid for.
ForNeighbours == [a \in Attempts |-> IF a = a1 THEN b1 ELSE b3]

\* All charges on the order of a1.
AllOnA1 == [c \in Charges |-> a1]

RefundPerCharge == [r \in Refunds |-> IF r = r1 THEN c1 ELSE c2]
AllOfC1 == [r \in Refunds |-> c1]

=============================================================================
