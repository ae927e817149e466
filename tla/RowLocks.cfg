SPECIFICATION Spec
CONSTANTS
    Workers = {w1, w2, w3}
    Bookings = {b1, b2}
    Conflicts <- SameSlot
    Priced = {b1}
    Nobody = Nobody
SYMMETRY AnyWorker
INVARIANT TypeOK
INVARIANT AttemptsFollowBooking
INVARIANT RefundsAgree
INVARIANT PaymentsAreNotDeadlocked
PROPERTY ReservesSlots
PROPERTY KeepsLedger
CHECK_DEADLOCK FALSE
