SPECIFICATION FairCopySpec
CONSTANTS
    MaxUploadBytes = 6
    BufferSize = 4
    MaxSize = 12
INVARIANTS
    StoredIsWholeAndBounded
    LargeIsTooLarge
PROPERTIES
    UploadEnds
CHECK_DEADLOCK FALSE
