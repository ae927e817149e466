\* A login, a rotation, and then a second rotation beside the reuse of the first token.
SPECIFICATION FairSpec
CONSTANTS
    Requests = {q1, q2, q3, q4}
    Nobody = Nobody
PROPERTIES
    ReuseEndsFamily
CHECK_DEADLOCK FALSE
