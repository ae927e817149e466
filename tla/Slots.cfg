SPECIFICATION FairSpec
CONSTANTS
    u1 = u1
    u2 = u2
    s1 = s1
    p1 = p1
    p2 = p2
    b1 = b1
    b2 = b2
    b3 = b3
    a1 = a1
    a2 = a2
    c1 = c1
    c2 = c2
    c3 = c3
    r1 = r1
    r2 = r2
    r3 = r3
    Users = {u1, u2}
    Sites = {s1}
    Points = {p1}
    Bookings = {b1, b2, b3}
    Attempts = {a1, a2}
    Charges = {c1, c2}
    Refunds = {}
    NoCharge = NoCharge
    NoRefund = NoRefund
    Managed = {}
    Mispriced = {}
    Priced = {b1, b3}
    SiteOf <- MCSiteOf
    OwnerOf <- MCOwner
    PointOf <- MCPoint
    StartsAt <- ThreeStarts
    EndsAt <- ThreeEnds
    BookingFor <- ForNeighbours
    OrderOf <- ChargePerAttempt
    ChargeRefunded <- RefundPerCharge
    HoldMinutes = 1
    HoldBatch = 1
    RefundBatch = 1
    EarlyStart = 1
    MaxLag = 1
    MaxTime = 3
    MaxVersion = 5
INVARIANT NoDoubleBooking
INVARIANT SessionsAgree
PROPERTY ReservesSlots
PROPERTY StaleHoldsExpire
CHECK_DEADLOCK FALSE
