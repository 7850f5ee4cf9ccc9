SPECIFICATION FairSpec
CONSTANTS
    Sessions = {t1, t2, t3}
    Contents <- MCContents
    TTL = 2
    MaxTime = 5
INVARIANTS
    SettingsInv
PROPERTIES
    ChangesApply
    OneRefreshPerTTL
    CacheGoesForward
    GetReturns
