SPECIFICATION Spec
CONSTANTS
    Requests = {u1, u2, r1}
    Uploads = {u1, u2}
    Faults <- WholeAnswers
INVARIANTS
    RowHasItsFile
    CreatedIsQueued
    RejectedLeavesNoJob
    OrphanIsDoubtful
CHECK_DEADLOCK FALSE
