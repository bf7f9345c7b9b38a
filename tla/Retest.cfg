CONSTANTS
    Tested = {s1}
    Releases = {v1}
    Clicks = {k1}
    MaxTurns = 2
    CacheApart = TRUE
    CacheMayFail = FALSE
    Nobody = Nobody
SPECIFICATION ResultsSpec
CHECK_DEADLOCK FALSE
INVARIANT ResultsShown
