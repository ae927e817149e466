SPECIFICATION FairSpec
CONSTANTS
    s1 = s1
    p1 = p1
    Sites = {s1}
    Points = {p1}
    Edits = {q1, q2}
    Nobody = Nobody
    NoRow = NoRow
    Searches = {r1}
    NoKey = NoKey
    Managed = {s1, p1}
    SiteOf <- MCSiteOf
INVARIANT TypeOK
INVARIANT SearchesSeePublishedEdits
PROPERTY EditsAreAtomic
PROPERTY NoEditIsLost
PROPERTY OutdatedAnswersVanish
CHECK_DEADLOCK FALSE
