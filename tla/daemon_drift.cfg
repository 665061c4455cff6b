CONSTANTS
    Symbols = {s1, s2}
    Days = {1}
    MaxRows = 2
    HasPremiumIndex = FALSE
    MayDrift = TRUE
    MayFail = FALSE
    CloseYields = FALSE
    WaitForSwallows = FALSE
SPECIFICATION FairSpec
INVARIANT FlushedOnShutdown
