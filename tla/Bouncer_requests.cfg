SPECIFICATION FairSpec
CONSTANTS
    Requests = {r1, r2}
    Creds <- TwoKeys
    CacheSize = 1
    authTTL = 2
    unauthTTL = 1
    MaxFill = 1
    MaxTimers = 2
INVARIANTS
    TypeOK
    AuthenticatedIsRecent
PROPERTY
    RevocationTakesEffect
