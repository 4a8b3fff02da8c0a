SPECIFICATION Spec
INVARIANTS
    SizeIs413
    CertainFailureIsCleaned
    RefusedForItsRequest
PROPERTIES ImplementsSubmission
CHECK_DEADLOCK FALSE
