CONSTANTS
    Prices = {1, 2}
    None = None
    RowDepth = 1
    MaxId = 2
    MaxBuffer = 2
SPECIFICATION MCSpec
INVARIANTS
    MachineTypeOK
    NoCrossedRow
    MicropriceInsideSpread
    LiveBufferEmpty
    ContinuityIdIsBookId
PROPERTY IdsIncrease
