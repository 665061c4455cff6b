CONSTANTS
    None = None
    MayLose = FALSE
    MayReject = FALSE
    MaxLag = 0
    WeightLimit = 2
    MaxUsed = 3
    MaxStep = 2
    MaxFlight = 2
    MaxBuffer = 2
    MaxAge = 5
SPECIFICATION FairSpec
PROPERTY Resyncs
