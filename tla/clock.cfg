SPECIFICATION Spec
CONSTANTS
    HaltMs = 1
    MaxOffset = 3
    MaxNow = 4
    None = None
INVARIANTS
    TypeOK
    DriftWithinHalfTrip
    DecisionWithinHalfTrip
