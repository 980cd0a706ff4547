SPECIFICATION Spec
CONSTANTS
    la = la
    lb = lb
    lc = lc
    ld = ld
    le = le
    Records <- MCRecords
    Placings <- MCPlacings
    Delays = {0, 4, 8}
    OffsetLines = 3
    CoverageLines = 3
    FallbackLines = 2
INVARIANTS
    GoodTagsLand
    ShiftIsTheDelay
    CuratedOnTime
CHECK_DEADLOCK FALSE
