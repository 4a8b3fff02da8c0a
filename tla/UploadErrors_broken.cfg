SPECIFICATION Spec
INVARIANTS
    ServiceFailureIs500
CHECK_DEADLOCK FALSE
