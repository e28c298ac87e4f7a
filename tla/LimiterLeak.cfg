\* Three attempts at a limit of two, two of which may die between any two
\* commands; the key's expiry falls anywhere among them.
CONSTANTS
    Workers = {w1, w2, w3}
    MaxPerOrg = 2
    TTL = 3
    MaxHold = 2
    MaxDeaths = 2
SPECIFICATION FairSpec
INVARIANTS
    LimitUnlessLost
    PositiveExpires
PROPERTIES
    RefusedForCause
    LeakHeals
CHECK_DEADLOCK FALSE
