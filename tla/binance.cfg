CONSTANTS
    Prices = {1, 2, 3}
    None = None
    RowDepth = 2
    SnapDepth = 2
    StreamDepth = 3
    Feed = "binance"
    MaxId = 4
    MaxBuffer = 4
    Lossy = TRUE
    Histories = {1, 2, 3, 4}
    Timelines <- MCTimelines
    BadAnswers <- MCBadAnswers
SPECIFICATION Spec
INVARIANTS
    TypeOK
    BookSound
    LiveIsSeeded
    RowTrue
    BufferHasTask
PROPERTIES
    GapRestarts
    ImplementsReplica
