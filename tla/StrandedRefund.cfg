SPECIFICATION FairSpec
CONSTANTS
    u1 = u1
    u2 = u2
    s1 = s1
    p1 = p1
    p2 = p2
    b1 = b1
    b2 = b2
    b3 = b3
    a1 = a1
    a2 = a2
    c1 = c1
    c2 = c2
    c3 = c3
    r1 = r1
    r2 = r2
    r3 = r3
    Users = {u1}
    Sites = {s1}
    Points = {p1}
    Bookings = {b1}
    Attempts = {a1}
    Charges = {c1}
    Refunds = {r1}
    NoCharge = NoCharge
    NoRefund = NoRefund
    Managed = {}
    Mispriced = {}
    Priced = {b1}
    SiteOf <- MCSiteOf
    OwnerOf <- MCOwner
    PointOf <- MCPoint
    StartsAt <- OneStart
    EndsAt <- OneEnd
    BookingFor <- BothForB1
    OrderOf <- ChargePerAttempt
    ChargeRefunded <- RefundPerCharge
    HoldMinutes = 2
    HoldBatch = 1
    RefundBatch = 1
    EarlyStart = 1
    MaxLag = 0
    MaxTime = 3
    MaxVersion = 5
PROPERTY RequestedRefundsSettle
CHECK_DEADLOCK FALSE
