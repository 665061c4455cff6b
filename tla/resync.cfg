CONSTANTS
    None = None
    MayLose = TRUE
    MayReject = TRUE
    MaxLag = 2
    WeightLimit = 2
    MaxUsed = 3
    MaxStep = 2
    MaxFlight = 2
    MaxBuffer = 3
    MaxAge = 5
SPECIFICATION TimelySpec
INVARIANT TypeOK
PROPERTIES
    RebuiltWhenSpanned
    Resyncs
