SPECIFICATION Spec
CONSTANTS
    BufferSize = 2
    MaxLine = 3
    MaxInput = 6
INVARIANTS
    ReportIsExact
    LineIsBounded
CHECK_DEADLOCK FALSE
