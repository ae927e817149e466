\* Four requests of one user, told apart for the sake of TransactionsEnd.
SPECIFICATION FairSpec
CONSTANTS
    Requests = {q1, q2, q3, q4}
    Nobody = Nobody
INVARIANTS
    TypeOK
    OneLiveGeneration
PROPERTIES
    KeepsFamilies
    PasswordChangeEndsSessions
    TransactionsEnd
CHECK_DEADLOCK FALSE
