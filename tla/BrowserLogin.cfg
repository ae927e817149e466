SPECIFICATION FairSpec
CONSTANTS
    t1 = t1
    t2 = t2
    x1 = x1
    x2 = x2
    x3 = x3
    Tabs = {t1, t2}
    Calls = {x1, x2, x3}
    TabOf <- MCTabOf
    Kinds <- MCKinds
    Sessions = {s1, s2, s3}
    NoSession = NoSession
INVARIANT TypeOK
PROPERTY KeepsFamilies
PROPERTY LoginsSurvive
PROPERTY CallsEnd
CHECK_DEADLOCK FALSE
