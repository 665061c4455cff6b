CONSTANTS
    Prices = {1, 2, 3}
    None = None
    RowDepth = 2
    SnapDepth = 3
    StreamDepth = 3
    Feed = "okx"
    MaxId = 3
    MaxBuffer = 2
    Lossy = TRUE
    Histories = {1, 3}
    Timelines <- MCTimelines
    BadAnswers <- MCBadAnswers
SPECIFICATION FairSpec
INVARIANTS
    NoCrossedRow
    BufferHasTask
    BookSoundOnSnapshot
    RowTrueOnSnapshot
    LeftoversOnly
    NothingInvented
PROPERTIES
    BufferDrains
    GapRestartsOnceFilled
