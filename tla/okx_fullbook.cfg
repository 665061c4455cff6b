CONSTANTS
    Prices = {1, 2, 3}
    None = None
    RowDepth = 2
    SnapDepth = 3
    StreamDepth = 3
    Feed = "okx"
    MaxId = 3
    MaxBuffer = 3
    Lossy = FALSE
    Histories = {3}
    Timelines <- MCTimelines
    BadAnswers <- MCBadAnswers
SPECIFICATION Spec
CHECK_DEADLOCK FALSE
INVARIANTS
    RowTrue
