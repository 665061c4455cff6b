CONSTANTS
    Symbols = {s1}
    Days = {1, 2}
    MaxRows = 2
    HasPremiumIndex = TRUE
    MayDrift = TRUE
    MayFail = TRUE
    CloseYields = TRUE
    WaitForSwallows = TRUE
SPECIFICATION FairSpec
INVARIANTS
    TypeOK
    RowsOnce
    FilesInOrder
    NothingLeftBehind
PROPERTIES
    StopCompletes
    DriftHalts
    RowsReachDisk
