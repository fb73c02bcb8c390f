CONSTANTS
    Limits = {0, 1, 2, 4}
    Offsets = {0, 1, 3}
    MaxRows = 7

SPECIFICATION LimitOpSpec

INVARIANTS
    OutputIsWindow
    EndedMeansAll

PROPERTY StopsPulling

CHECK_DEADLOCK FALSE
